---------------------------- MODULE Spec2Model ----------------------------
(***************************************************************************)
(* A model of the D1 ORM's schema-driven query engine: Schema.validate,    *)
(* the QueryBuilder compilers, the CRUD pipeline of CrudOperations, the    *)
(* upsert race recovery of UpsertOperations, the bulk loops and the        *)
(* percentile aggregate.  Each group of operations has its own             *)
(* specification over the shared table state `db`.                         *)
(***************************************************************************)
EXTENDS Integers, Sequences, FiniteSets, TLC

VARIABLES db, nextId, cr, up, lastWriter, fd, bk, pct, qb, ops

vars == <<db, nextId, cr, up, lastWriter, fd, bk, pct, qb, ops>>

(***************************************************************************)
(* Values.  A JavaScript value is a tagged record; `undefined` and `null`  *)
(* are values of their own.  An ISO timestamp is a string (tag "str")      *)
(* whose text is "iso"; a Date object has the tag "dateobj".               *)
(***************************************************************************)
Undef == [t |-> "undef", n |-> 0, s |-> ""]
Null == [t |-> "null", n |-> 0, s |-> ""]
Num(n) == [t |-> "num", n |-> n, s |-> ""]
Str(s, len) == [t |-> "str", n |-> len, s |-> s]
Bool(b) == [t |-> "bool", n |-> IF b THEN 1 ELSE 0, s |-> ""]
DateObj(ts) == [t |-> "dateobj", n |-> ts, s |-> ""]

\* Date.prototype.toISOString: a Date object becomes a string.
ToISOString(d) == [t |-> "str", n |-> d.n, s |-> "iso"]

\* The clock reading of `new Date()`.
Clock == DateObj(1)

\* JavaScript truthiness of a value (`!x`, `x || y`, `a && b`).
Truthy(v) ==
    CASE v.t = "undef" -> FALSE
      [] v.t = "null" -> FALSE
      [] v.t = "num" -> v.n # 0
      [] v.t = "str" -> v.n # 0
      [] v.t = "bool" -> v.n = 1
      [] OTHER -> TRUE

(***************************************************************************)
(* Schema.  A field definition keeps the keys of FieldDefinition that the  *)
(* engine reads.  The bounds are tested by truthiness in the code          *)
(* (`fieldDef.min && ...`), so an undeclared bound and 0 are both 0 here.  *)
(***************************************************************************)
FieldDef(name, type, required, auto, unique, hasDefault, default) ==
    [name |-> name, type |-> type, required |-> required,
     autoIncrement |-> auto, unique |-> unique,
     hasDefault |-> hasDefault, default |-> default,
     min |-> 0, max |-> 0, minLength |-> 0, maxLength |-> 0,
     enum |-> << >>, validate |-> "none"]

MinAge == 13
MaxAge == 120

\* The fields the caller declares: the schema of the specification's scenario
\* plus a required field with a literal default.
DeclaredFields ==
    << FieldDef("id", "number", FALSE, TRUE, FALSE, FALSE, Undef),
       FieldDef("email", "string", TRUE, FALSE, TRUE, FALSE, Undef),
       [FieldDef("age", "number", FALSE, FALSE, FALSE, FALSE, Undef)
            EXCEPT !.min = MinAge, !.max = MaxAge],
       FieldDef("role", "string", TRUE, FALSE, FALSE, TRUE, Str("user", 4)) >>

\* Schema constructor: the managed fields appended after the declared ones.
TimestampFields ==
    << FieldDef("created_at", "date", TRUE, FALSE, FALSE, TRUE, Clock),
       FieldDef("updated_at", "date", TRUE, FALSE, FALSE, TRUE, Clock) >>

SoftDeleteFields ==
    << FieldDef("deleted_at", "date", FALSE, FALSE, FALSE, TRUE, Null) >>

SchemaFields(opts) ==
    DeclaredFields
        \o (IF opts.timestamps THEN TimestampFields ELSE << >>)
        \o (IF opts.softDeletes THEN SoftDeleteFields ELSE << >>)

\* Schema options: the constructor's defaults, and a soft-delete-enabled schema.
DefaultOptions == [timestamps |-> TRUE, softDeletes |-> FALSE, paranoid |-> FALSE]
SoftDeleteOptions == [timestamps |-> TRUE, softDeletes |-> TRUE, paranoid |-> FALSE]

FieldNames ==
    {"id", "email", "age", "role", "created_at", "updated_at", "deleted_at"}

\* A record (a plain object): every key it does not hold reads as undefined.
EmptyRecord == [f \in FieldNames |-> Undef]

(***************************************************************************)
(* Schema.validate                                                         *)
(***************************************************************************)
ValidateType(v, type) ==
    CASE type = "string" -> v.t = "str"
      [] type = "number" -> v.t = "num"
      [] type = "boolean" -> v.t = "bool"
      [] type = "date" -> v.t \in {"dateobj", "str"}
      [] type = "text" -> v.t = "str"
      [] OTHER -> TRUE

ValidationError(field, kind, bound) == [field |-> field, kind |-> kind, bound |-> bound]

\* Array.prototype.includes on an enum list.
Includes(list, v) == \E k \in 1..Len(list) : list[k] = v

\* The custom validator a field declares (`validate: (value) => boolean |
\* string`): "email" is `email.includes("@") || "Invalid email"`.
WithAtSign == {"a@b", "a@b.com", "c@d.com", "e@f.com"}

CustomValidate(validator, v) ==
    CASE validator = "email" ->
            IF v.s \in WithAtSign THEN Bool(TRUE) ELSE Str("Invalid email", 13)
      [] OTHER -> Bool(TRUE)

\* The errors one field contributes, in the order the code pushes them.
FieldErrors(fd0, v) ==
    IF fd0.required /\ ~fd0.autoIncrement /\ v.t \in {"undef", "null"}
    THEN << ValidationError(fd0.name, "required", 0) >>
    ELSE IF v.t \in {"undef", "null"} THEN << >>
    ELSE IF ~ValidateType(v, fd0.type)
    THEN << ValidationError(fd0.name, "type", 0) >>
    ELSE (IF fd0.type = "string" /\ v.t = "str" /\ fd0.maxLength # 0 /\ v.n > fd0.maxLength
          THEN << ValidationError(fd0.name, "maxLength", fd0.maxLength) >> ELSE << >>)
      \o (IF fd0.type = "string" /\ v.t = "str" /\ fd0.minLength # 0 /\ v.n < fd0.minLength
          THEN << ValidationError(fd0.name, "minLength", fd0.minLength) >> ELSE << >>)
      \o (IF fd0.type = "number" /\ v.t = "num" /\ fd0.max # 0 /\ v.n > fd0.max
          THEN << ValidationError(fd0.name, "max", fd0.max) >> ELSE << >>)
      \o (IF fd0.type = "number" /\ v.t = "num" /\ fd0.min # 0 /\ v.n < fd0.min
          THEN << ValidationError(fd0.name, "min", fd0.min) >> ELSE << >>)
      \o (IF Len(fd0.enum) > 0 /\ ~Includes(fd0.enum, v)
          THEN << ValidationError(fd0.name, "enum", 0) >> ELSE << >>)
      \o (IF fd0.validate # "none" /\ CustomValidate(fd0.validate, v) # Bool(TRUE)
          THEN << ValidationError(fd0.name,
                                  IF CustomValidate(fd0.validate, v).t = "str"
                                  THEN "custom" ELSE "invalid", 0) >>
          ELSE << >>)

\* A validation that returns at the first field with an error.
RECURSIVE ValidateFromStoppingAtFirst(_, _, _)
ValidateFromStoppingAtFirst(fields, i, data) ==
    IF i > Len(fields) THEN << >>
    ELSE IF Len(FieldErrors(fields[i], data[fields[i].name])) > 0
    THEN FieldErrors(fields[i], data[fields[i].name])
    ELSE ValidateFromStoppingAtFirst(fields, i + 1, data)

RECURSIVE ValidateFrom(_, _, _)
ValidateFrom(fields, i, data) ==
    IF i > Len(fields) THEN << >>
    ELSE FieldErrors(fields[i], data[fields[i].name]) \o ValidateFrom(fields, i + 1, data)

Validate(opts, data) ==
    LET errors == ValidateFrom(SchemaFields(opts), 1, data)
    IN [isValid |-> Len(errors) = 0, errors |-> errors]


(***************************************************************************)
(* CrudOperations.prepareDataForInsert                                     *)
(***************************************************************************)
\* fallbackDefaults[type]; Undef stands for "no entry for this type".
FallbackDefault(type) ==
    CASE type = "string" -> Str("", 0)
      [] type = "number" -> Num(0)
      [] type = "boolean" -> Bool(FALSE)
      [] type = "date" -> ToISOString(Clock)
      [] type = "text" -> Str("", 0)
      [] type = "json" -> Null
      [] OTHER -> Undef

\* The declared default of a field as the insert uses it: a Date becomes an
\* ISO string.
DefaultValue(fd0) ==
    IF fd0.default.t = "dateobj" THEN ToISOString(fd0.default) ELSE fd0.default

\* A default loop that forgets to test whether the caller set the field.
WithDefaultOverwriting(fd0, v) ==
    IF ~fd0.autoIncrement /\ fd0.hasDefault THEN DefaultValue(fd0) ELSE v

\* Second loop: defaults for the unset non-auto-increment fields.
WithDefault(fd0, v) ==
    IF ~fd0.autoIncrement /\ v = Undef /\ fd0.hasDefault THEN DefaultValue(fd0) ELSE v

\* Third loop: type-appropriate fallbacks for optional fields still unset.
WithFallback(fd0, v) ==
    IF ~fd0.autoIncrement /\ ~fd0.required /\ v = Undef
       /\ ~fd0.hasDefault /\ FallbackDefault(fd0.type) # Undef
    THEN FallbackDefault(fd0.type)
    ELSE v

IsSchemaField(opts, f) ==
    \E i \in 1..Len(SchemaFields(opts)) : SchemaFields(opts)[i].name = f

FieldOf(opts, f) ==
    LET fs == SchemaFields(opts)
    IN fs[CHOOSE i \in 1..Len(fs) : fs[i].name = f]

PrepareDataForInsert(opts, data) ==
    LET filled == [f \in FieldNames |->
                     IF IsSchemaField(opts, f)
                     THEN WithFallback(FieldOf(opts, f), WithDefault(FieldOf(opts, f), data[f]))
                     ELSE data[f]]
        stamped == [f \in FieldNames |->
                     IF opts.timestamps /\ f \in {"created_at", "updated_at"}
                        /\ ~Truthy(filled[f])
                     THEN ToISOString(Clock)
                     ELSE filled[f]]
    IN [f \in FieldNames |->
          IF stamped[f].t = "dateobj" THEN ToISOString(stamped[f]) ELSE stamped[f]]

(***************************************************************************)
(* The remote executor: a table of rows in rowid order with a UNIQUE       *)
(* column (email) and an AUTOINCREMENT id.  A raw error message is kept as *)
(* the set of substrings of its lower-cased text that the classifier looks *)
(* for, with the column a constraint message names.                        *)
(***************************************************************************)
Message(cat, field, toks, col) == [cat |-> cat, field |-> field, toks |-> toks, col |-> col]

\* "UNIQUE constraint failed: <table>.<col>"
RawUnique(col) == Message("raw", "", {"unique constraint"}, col)
\* "HTTP <status>: <statusText>", thrown by makeRequest on a non-OK response.
RawHttp(code) == Message("raw", "", {code}, "")

UniqueColumns(opts) ==
    {SchemaFields(opts)[i].name : i \in {j \in 1..Len(SchemaFields(opts)) :
                                             SchemaFields(opts)[j].unique}}

\* Columns the INSERT leaves undefined are stored as NULL.
StoredRow(prepared, id) ==
    [f \in FieldNames |->
        IF f = "id" THEN Num(id)
        ELSE IF prepared[f] = Undef THEN Null ELSE prepared[f]]

UniqueViolations(opts, table, prepared) ==
    {c \in UniqueColumns(opts) :
        /\ prepared[c].t \notin {"undef", "null"}
        /\ \E i \in 1..Len(table) : table[i][c] = prepared[c]}

NoError == Message("none", "", {}, "")

QueryResult(success, results, changes, lastRowId, error, table, nid) ==
    [success |-> success, results |-> results, changes |-> changes,
     lastRowId |-> lastRowId, error |-> error, table |-> table, nextId |-> nid]

\* INSERT INTO t (...) VALUES (...): the QueryResult of D1DatabaseManager.query.
ExecInsert(opts, table, nid, prepared) ==
    LET bad == UniqueViolations(opts, table, prepared)
    IN IF bad # {}
       THEN QueryResult(FALSE, << >>, 0, 0, RawUnique(CHOOSE c \in bad : TRUE), table, nid)
       ELSE QueryResult(TRUE, << >>, 1, nid, NoError,
                        Append(table, StoredRow(prepared, nid)), nid + 1)

(***************************************************************************)
(* QueryBuilder.  A builder is the record of its private fields.  Compiled *)
(* SQL is kept clause by clause; a compiled condition keeps its text       *)
(* (field and operator) and the number of `?` placeholders in it, and the  *)
(* executor binds the parameters to the placeholders by position.          *)
(***************************************************************************)
Condition(field, operator, value, hasValues, values) ==
    [field |-> field, operator |-> operator, value |-> value,
     hasValues |-> hasValues, values |-> values]

NewQueryBuilder(tableName) ==
    [select |-> << "*" >>, from |-> tableName, where |-> << >>, having |-> << >>,
     orderBy |-> << >>, groupBy |-> << >>, limit |-> Undef, offset |-> Undef,
     distinct |-> FALSE]

Where(q, field, operator, value) ==
    [q EXCEPT !.where = Append(@, Condition(field, operator, value, FALSE, << >>))]
WhereIn(q, field, values) ==
    [q EXCEPT !.where = Append(@, Condition(field, "IN", Undef, TRUE, values))]
WhereNotIn(q, field, values) ==
    [q EXCEPT !.where = Append(@, Condition(field, "NOT IN", Undef, TRUE, values))]
WhereBetween(q, field, lo, hi) ==
    [q EXCEPT !.where = Append(@, Condition(field, "BETWEEN", Undef, TRUE, << lo, hi >>))]
WhereNull(q, field) ==
    [q EXCEPT !.where = Append(@, Condition(field, "IS NULL", Undef, FALSE, << >>))]
Having(q, field, operator, value) ==
    [q EXCEPT !.having = Append(@, Condition(field, operator, value, FALSE, << >>))]
Select(q, fields) == [q EXCEPT !.select = IF Len(fields) > 0 THEN fields ELSE << "*" >>]
OrderBy(q, field, direction) ==
    [q EXCEPT !.orderBy = Append(@, [field |-> field, direction |-> direction])]
LimitTo(q, count) == [q EXCEPT !.limit = Num(count)]
OffsetBy(q, count) == [q EXCEPT !.offset = Num(count)]

\* `n` placeholders in a row: "?, ?, ?".
Compiled(field, operator, placeholders) ==
    [field |-> field, operator |-> operator, placeholders |-> placeholders]
AlwaysFalse == Compiled("", "1=0", 0)

\* A compiler that writes an empty list as `field IN ()` and a BETWEEN
\* without two bounds as a test against no value.
BuildWhereConditionEmptyList(c) ==
    CASE c.operator \in {"IS NULL", "IS NOT NULL"} ->
            [text |-> Compiled(c.field, c.operator, 0), params |-> << >>]
      [] c.operator \in {"IN", "NOT IN"} ->
            [text |-> Compiled(c.field, c.operator, Len(c.values)), params |-> c.values]
      [] c.operator = "BETWEEN" ->
            IF c.hasValues /\ Len(c.values) = 2
            THEN [text |-> Compiled(c.field, c.operator, 2), params |-> c.values]
            ELSE [text |-> Compiled(c.field, "=", 1), params |-> << c.value >>]
      [] OTHER ->
            [text |-> Compiled(c.field, c.operator, 1), params |-> << c.value >>]

\* A compiler that pushes a parameter for every condition, the IS NULL and
\* the always-false ones included.
BuildWhereConditionPushingAll(c) ==
    CASE c.operator \in {"IS NULL", "IS NOT NULL"} ->
            [text |-> Compiled(c.field, c.operator, 0), params |-> << c.value >>]
      [] c.operator \in {"IN", "NOT IN"} ->
            IF c.hasValues /\ Len(c.values) > 0
            THEN [text |-> Compiled(c.field, c.operator, Len(c.values)), params |-> c.values]
            ELSE [text |-> AlwaysFalse, params |-> c.values]
      [] c.operator = "BETWEEN" ->
            [text |-> Compiled(c.field, c.operator, 2), params |-> c.values]
      [] OTHER ->
            [text |-> Compiled(c.field, c.operator, 1), params |-> << c.value >>]

\* buildWhereCondition: the compiled text and the parameters it pushes.
BuildWhereCondition(c) ==
    CASE c.operator \in {"IS NULL", "IS NOT NULL"} ->
            [text |-> Compiled(c.field, c.operator, 0), params |-> << >>]
      [] c.operator \in {"IN", "NOT IN"} ->
            IF c.hasValues /\ Len(c.values) > 0
            THEN [text |-> Compiled(c.field, c.operator, Len(c.values)), params |-> c.values]
            ELSE [text |-> AlwaysFalse, params |-> << >>]
      [] c.operator = "BETWEEN" ->
            IF c.hasValues /\ Len(c.values) = 2
            THEN [text |-> Compiled(c.field, c.operator, 2), params |-> c.values]
            ELSE [text |-> AlwaysFalse, params |-> << >>]
      [] OTHER ->
            [text |-> Compiled(c.field, c.operator, 1), params |-> << c.value >>]

\* conditions.map(c => buildWhereCondition(c, params)): texts and pushed params.
RECURSIVE BuildConditions(_, _)
BuildConditions(conds, i) ==
    IF i > Len(conds) THEN [texts |-> << >>, params |-> << >>]
    ELSE LET one == BuildWhereCondition(conds[i])
             rest == BuildConditions(conds, i + 1)
         IN [texts |-> << one.text >> \o rest.texts, params |-> one.params \o rest.params]

Sql(kind, from, select, set, where, having, orderBy, limit, offset) ==
    [kind |-> kind, from |-> from, select |-> select, set |-> set, where |-> where,
     having |-> having, orderBy |-> orderBy, limit |-> limit, offset |-> offset]

Build(q) ==
    LET w == BuildConditions(q.where, 1)
        h == BuildConditions(q.having, 1)
    IN [sql |-> Sql("SELECT", q.from, q.select, << >>, w.texts, h.texts,
                    q.orderBy, q.limit, q.offset),
        params |-> w.params \o h.params]

BuildCount(q) ==
    LET w == BuildConditions(q.where, 1)
        h == BuildConditions(q.having, 1)
    IN [sql |-> Sql("COUNT", q.from, << "COUNT(*) as count" >>, << >>, w.texts, h.texts,
                    << >>, Undef, Undef),
        params |-> w.params \o h.params]

\* The keys of the set-map whose value is defined, in the map's key order.
RECURSIVE SetClause(_, _, _)
SetClause(keys, i, data) ==
    IF i > Len(keys) THEN << >>
    ELSE (IF data[keys[i]] # Undef THEN << keys[i] >> ELSE << >>)
         \o SetClause(keys, i + 1, data)

RECURSIVE ValuesOf(_, _, _)
ValuesOf(keys, i, data) ==
    IF i > Len(keys) THEN << >>
    ELSE << data[keys[i]] >> \o ValuesOf(keys, i + 1, data)

\* A buildUpdate that leaves null values out of the SET clause as well.
BuildUpdateSkippingNull(q, keys, data) ==
    LET setClause == SetClause(keys, 1, [f \in DOMAIN data |->
                                            IF data[f] = Null THEN Undef ELSE data[f]])
        w == BuildConditions(q.where, 1)
    IN IF Len(setClause) = 0
       THEN [ok |-> FALSE,
             sql |-> Sql("UPDATE", q.from, << >>, << >>, << >>, << >>, << >>, Undef, Undef),
             params |-> << >>]
       ELSE [ok |-> TRUE,
             sql |-> Sql("UPDATE", q.from, << >>, setClause, w.texts, << >>, << >>,
                         Undef, Undef),
             params |-> ValuesOf(setClause, 1, data) \o w.params]

\* buildUpdate(data) over the key order `keys`; ok = FALSE is the thrown
\* 'No fields to update'.
BuildUpdate(q, keys, data) ==
    LET setClause == SetClause(keys, 1, data)
        w == BuildConditions(q.where, 1)
    IN IF Len(setClause) = 0
       THEN [ok |-> FALSE,
             sql |-> Sql("UPDATE", q.from, << >>, << >>, << >>, << >>, << >>, Undef, Undef),
             params |-> << >>]
       ELSE [ok |-> TRUE,
             sql |-> Sql("UPDATE", q.from, << >>, setClause, w.texts, << >>, << >>,
                         Undef, Undef),
             params |-> ValuesOf(setClause, 1, data) \o w.params]

BuildDelete(q) ==
    LET w == BuildConditions(q.where, 1)
    IN [sql |-> Sql("DELETE", q.from, << >>, << >>, w.texts, << >>, << >>, Undef, Undef),
        params |-> w.params]

\* The number of `?` in a compiled statement.
RECURSIVE PlaceholdersIn(_, _)
PlaceholdersIn(texts, i) ==
    IF i > Len(texts) THEN 0 ELSE texts[i].placeholders + PlaceholdersIn(texts, i + 1)

PlaceholderCount(sql) ==
    Len(sql.set) + PlaceholdersIn(sql.where, 1) + PlaceholdersIn(sql.having, 1)

(***************************************************************************)
(* The remote executor, continued: statements compiled by the builder.     *)
(***************************************************************************)
\* The parameters bound to the placeholders of the conditions, by position.
RECURSIVE Bind(_, _, _, _)
Bind(texts, i, params, pos) ==
    IF i > Len(texts) THEN << >>
    ELSE << [field |-> texts[i].field, operator |-> texts[i].operator,
             args |-> SubSeq(params, pos, pos + texts[i].placeholders - 1)] >>
         \o Bind(texts, i + 1, params, pos + texts[i].placeholders)

\* SQL comparison of two values of the same storage class.
Comparable(a, b) == a.t = b.t /\ a.t \in {"num", "str"}

RowMatches(row, c) ==
    LET v == row[c.field]
    IN CASE c.operator = "1=0" -> FALSE
         [] c.operator = "IS NULL" -> v = Null
         [] c.operator = "IS NOT NULL" -> v # Null
         [] c.operator = "=" -> v # Null /\ v = c.args[1]
         [] c.operator = "!=" -> v # Null /\ c.args[1] # Null /\ v # c.args[1]
         [] c.operator = ">" -> Comparable(v, c.args[1]) /\ v.n > c.args[1].n
         [] c.operator = "<" -> Comparable(v, c.args[1]) /\ v.n < c.args[1].n
         [] c.operator = ">=" -> Comparable(v, c.args[1]) /\ v.n >= c.args[1].n
         [] c.operator = "<=" -> Comparable(v, c.args[1]) /\ v.n <= c.args[1].n
         [] c.operator = "IN" -> v # Null /\ \E k \in 1..Len(c.args) : c.args[k] = v
         [] c.operator = "NOT IN" ->
                v # Null /\ \A k \in 1..Len(c.args) : c.args[k] # Null /\ c.args[k] # v
         [] c.operator = "BETWEEN" ->
                /\ Comparable(v, c.args[1]) /\ Comparable(v, c.args[2])
                /\ c.args[1].n <= v.n /\ v.n <= c.args[2].n
         [] OTHER -> FALSE

RowMatchesAll(row, conds) == \A i \in 1..Len(conds) : RowMatches(row, conds[i])

RECURSIVE SelectFrom(_, _, _)
SelectFrom(table, i, conds) ==
    IF i > Len(table) THEN << >>
    ELSE (IF RowMatchesAll(table[i], conds) THEN << table[i] >> ELSE << >>)
         \o SelectFrom(table, i + 1, conds)

\* ORDER BY: NULL sorts first, then numbers, then text.
StorageClass(v) == CASE v.t \in {"null", "undef"} -> 0 [] v.t = "num" -> 1 [] OTHER -> 2

ValueBefore(a, b) ==
    \/ StorageClass(a) < StorageClass(b)
    \/ StorageClass(a) = StorageClass(b) /\ a.n < b.n

RECURSIVE RowBefore(_, _, _, _)
RowBefore(r1, r2, orderBy, i) ==
    IF i > Len(orderBy) THEN FALSE
    ELSE LET a == IF orderBy[i].direction = "ASC" THEN r1[orderBy[i].field]
                  ELSE r2[orderBy[i].field]
             b == IF orderBy[i].direction = "ASC" THEN r2[orderBy[i].field]
                  ELSE r1[orderBy[i].field]
         IN \/ ValueBefore(a, b)
            \/ ~ValueBefore(b, a) /\ RowBefore(r1, r2, orderBy, i + 1)

RECURSIVE InsertSorted(_, _, _)
InsertSorted(sorted, r, orderBy) ==
    IF Len(sorted) = 0 THEN << r >>
    ELSE IF RowBefore(r, Head(sorted), orderBy, 1)
         THEN << r >> \o sorted
         ELSE << Head(sorted) >> \o InsertSorted(Tail(sorted), r, orderBy)

RECURSIVE SortRows(_, _)
SortRows(rows, orderBy) ==
    IF Len(rows) = 0 THEN << >>
    ELSE InsertSorted(SortRows(SubSeq(rows, 1, Len(rows) - 1), orderBy),
                      rows[Len(rows)], orderBy)

\* LIMIT n OFFSET m: a negative OFFSET reads as 0, a negative LIMIT as no limit.
LimitOffset(rows, limit, offset) ==
    LET m == IF offset = Undef \/ offset.n < 0 THEN 0 ELSE offset.n
        skipped == IF m >= Len(rows) THEN << >> ELSE SubSeq(rows, m + 1, Len(rows))
    IN IF limit = Undef \/ limit.n < 0 \/ limit.n >= Len(skipped) THEN skipped
       ELSE SubSeq(skipped, 1, limit.n)

\* The engine's complaint when the parameters do not fit the placeholders.
RawBinding == Message("raw", "", {}, "")

\* One statement compiled by the builder, run against the table.
ExecSql(table, nid, sql, params) ==
    IF PlaceholderCount(sql) # Len(params)
    THEN QueryResult(FALSE, << >>, 0, 0, RawBinding, table, nid)
    ELSE
    LET nset == Len(sql.set)
        conds == Bind(sql.where \o sql.having, 1, params, nset + 1)
        hit == {i \in 1..Len(table) : RowMatchesAll(table[i], conds)}
    IN CASE sql.kind = "SELECT" ->
              QueryResult(TRUE,
                          LimitOffset(SortRows(SelectFrom(table, 1, conds), sql.orderBy),
                                      sql.limit, sql.offset),
                          0, 0, NoError, table, nid)
         [] sql.kind = "COUNT" ->
              QueryResult(TRUE, << Cardinality(hit) >>, 0, 0, NoError, table, nid)
         [] sql.kind = "UPDATE" ->
              QueryResult(TRUE, << >>, Cardinality(hit), 0, NoError,
                          [i \in 1..Len(table) |->
                             IF i \in hit
                             THEN [f \in FieldNames |->
                                     IF \E k \in 1..nset : sql.set[k] = f
                                     THEN params[CHOOSE k \in 1..nset : sql.set[k] = f]
                                     ELSE table[i][f]]
                             ELSE table[i]],
                          nid)
         [] sql.kind = "DELETE" ->
              QueryResult(TRUE, << >>, Cardinality(hit), 0, NoError,
                          SelectFrom(table, 1,
                                     << [field |-> "id", operator |-> "NOT IN",
                                         args |-> [k \in 1..Len(table) |->
                                                     IF k \in hit THEN table[k].id
                                                     ELSE Num(0)]] >>),
                          nid)
         [] OTHER -> QueryResult(FALSE, << >>, 0, 0, RawBinding, table, nid)

(***************************************************************************)
(* BaseModel.parseDbError and BaseModel.executeQuery                       *)
(***************************************************************************)
\* The lower-cased words of a statement's text: its keyword and the column
\* names it mentions.
SqlWords(sql) ==
    {CASE sql.kind = "INSERT" -> "insert"
       [] sql.kind = "UPDATE" -> "update"
       [] sql.kind = "DELETE" -> "delete"
       [] OTHER -> "select"}
    \cup {sql.select[i] : i \in 1..Len(sql.select)}
    \cup {sql.set[i] : i \in 1..Len(sql.set)}
    \cup {sql.where[i].field : i \in 1..Len(sql.where)}

\* lowerSql.includes(word), over the words the model's statements hold.
SqlIncludes(sql, word) ==
    \E w \in SqlWords(sql) : w = word \/ (word = "update" /\ w = "updated_at")

InsertSql(table, prepared) ==
    Sql("INSERT", table, SetClause(<< "id", "email", "age", "role", "created_at",
                                      "updated_at", "deleted_at" >>, 1, prepared),
        << >>, << >>, << >>, << >>, Undef, Undef)

\* The field a duplicate-entry message names.
DuplicateField(msg, sql) ==
    IF "unique constraint" \in msg.toks /\ msg.col # "" THEN msg.col
    ELSE IF SqlIncludes(sql, "insert")
    THEN CASE SqlIncludes(sql, "email") -> "email"
           [] SqlIncludes(sql, "username") -> "username"
           [] SqlIncludes(sql, "slug") -> "slug"
           [] SqlIncludes(sql, "sku") -> "sku"
           [] OTHER -> "field"
    ELSE "field"

\* parseDbError(error, sql).  `toks` of the result are the classifier's
\* patterns that occur in the text of the message it returns.
ParseDbError(opts, msg, sql) ==
    CASE "unique constraint" \in msg.toks \/ "duplicate" \in msg.toks ->
            Message("DuplicateEntry", DuplicateField(msg, sql), {"duplicate"}, "")
      [] "foreign key constraint" \in msg.toks ->
            Message("ForeignKey", "", {"foreign key constraint"}, "")
      [] "not null constraint" \in msg.toks ->
            IF msg.col # "" /\ IsSchemaField(opts, msg.col)
               /\ ~FieldOf(opts, msg.col).required
            THEN Message("SchemaMismatch", msg.col, {}, "")
            ELSE Message("MissingField",
                         IF msg.col # "" THEN msg.col ELSE "required field", {}, "")
      [] "check constraint" \in msg.toks -> Message("CheckConstraint", "", {}, "")
      [] "http 400" \in msg.toks ->
            IF SqlIncludes(sql, "insert")
            THEN Message("InsertFailed", "", {"unique constraint"}, "")
            ELSE IF SqlIncludes(sql, "update") THEN Message("UpdateFailed", "", {}, "")
            ELSE IF SqlIncludes(sql, "select") THEN Message("QueryFailed", "", {}, "")
            ELSE Message("BadRequest", "", {}, "")
      [] "http 401" \in msg.toks -> Message("Unauthorized", "", {}, "")
      [] "http 403" \in msg.toks -> Message("Forbidden", "", {}, "")
      [] "http 404" \in msg.toks -> Message("NotFound", "", {}, "")
      [] "http 429" \in msg.toks -> Message("RateLimited", "", {}, "")
      [] "http 500" \in msg.toks -> Message("ServerError", "", {}, "")
      [] OTHER -> msg

\* executeQuery's error path: the message thrown inside the try block is
\* caught by the same function's catch block and classified again.
ExecuteQueryError(opts, raw, sql) ==
    ParseDbError(opts, ParseDbError(opts, raw, sql), sql)

\* A race handler that recognises no message as a duplicate.
MentionsDuplicateNever(msg) == FALSE

\* error.message.toLowerCase().includes('duplicate')
MentionsDuplicate(msg) == "duplicate" \in msg.toks

(***************************************************************************)
(* CrudOperations: the read path                                           *)
(***************************************************************************)
TableName == "t"

\* Object.entries order of a where mapping or payload over the schema's keys.
KeyOrder == << "id", "email", "age", "role", "created_at", "updated_at", "deleted_at" >>

\* Where-entry values that are not scalars: an array, and an object with
\* an `operator` and a `value` property.
ArrayEntry(values) == [t |-> "array", n |-> 0, s |-> "", values |-> values]
OperatorEntry(operator, value) ==
    [t |-> "object", n |-> 0, s |-> "", operator |-> operator, value |-> value]

\* addWhereConditions: one condition per entry, null as IS NULL, undefined
\* skipped, an array as whereIn, an {operator, value} object as
\* where(field, operator, value), anything else as equality.
RECURSIVE AddWhereConditions(_, _, _)
AddWhereConditions(q, i, where) ==
    IF i > Len(KeyOrder) THEN q
    ELSE LET f == KeyOrder[i]
             v == where[f]
         IN AddWhereConditions(
                CASE v = Null -> WhereNull(q, f)
                  [] v = Undef -> q
                  [] v.t = "array" -> WhereIn(q, f, v.values)
                  [] v.t = "object" -> Where(q, f, v.operator, v.value)
                  [] OTHER -> Where(q, f, "=", v),
                i + 1, where)

FindOptions(where, limit, offset) == [where |-> where, limit |-> limit, offset |-> offset]

\* buildQueryFromOptions: where, limit/offset when truthy, then the
\* soft-delete filter.
BuildQueryFromOptions(opts, options) ==
    LET q1 == AddWhereConditions(NewQueryBuilder(TableName), 1, options.where)
        q2 == IF options.limit # 0 THEN LimitTo(q1, options.limit) ELSE q1
        q3 == IF options.offset # 0 THEN OffsetBy(q2, options.offset) ELSE q2
    IN IF opts.softDeletes /\ ~opts.paranoid THEN WhereNull(q3, "deleted_at") ELSE q3

\* `records[0] || null`; the null record is EmptyRecord.
FirstOrNull(rows) == IF Len(rows) > 0 THEN rows[1] ELSE EmptyRecord

\* The statement a finder compiles and what the executor returns for it.
RunQuery(table, q) ==
    CHOOSE r \in {[sql |-> b.sql, params |-> b.params,
                   records |-> ExecSql(t, 0, b.sql, b.params).results] :
                      b \in {Build(q)}, t \in {table}} : TRUE

FindByIdQuery(opts, id) == Where(NewQueryBuilder(TableName), "id", "=", id)
FindOneQuery(opts, where) == BuildQueryFromOptions(opts, FindOptions(where, 1, 0))
FindAllQuery(opts, where) == BuildQueryFromOptions(opts, FindOptions(where, 0, 0))

FindById(opts, table, id) == FirstOrNull(RunQuery(table, FindByIdQuery(opts, id)).records)
FindOne(opts, table, where) == FirstOrNull(RunQuery(table, FindOneQuery(opts, where)).records)
FindAll(opts, table, where) == RunQuery(table, FindAllQuery(opts, where)).records

(***************************************************************************)
(* CrudOperations: update                                                  *)
(***************************************************************************)
\* A preparation that forgets to remove id and created_at.
PrepareDataForUpdateKeepingId(opts, data) ==
    [f \in FieldNames |->
        IF f = "updated_at" /\ opts.timestamps THEN ToISOString(Clock)
        ELSE IF data[f].t = "dateobj" THEN ToISOString(data[f])
        ELSE data[f]]

\* prepareDataForUpdate: stamp updated_at, convert dates, delete id and
\* created_at.
PrepareDataForUpdate(opts, data) ==
    [f \in FieldNames |->
        IF f \in {"id", "created_at"} THEN Undef
        ELSE IF f = "updated_at" /\ opts.timestamps THEN ToISOString(Clock)
        ELSE IF data[f].t = "dateobj" THEN ToISOString(data[f])
        ELSE data[f]]

\* validateUpdateData: only the fields present in the payload.
UpdateFieldErrors(fd0, v) ==
    IF v = Undef THEN << >>
    ELSE IF ~ValidateType(v, fd0.type)
    THEN << ValidationError(fd0.name, "type", 0) >>
    ELSE (IF fd0.type = "string" /\ v.t = "str" /\ fd0.maxLength # 0 /\ v.n > fd0.maxLength
          THEN << ValidationError(fd0.name, "maxLength", fd0.maxLength) >> ELSE << >>)
      \o (IF fd0.type = "string" /\ v.t = "str" /\ fd0.minLength # 0 /\ v.n < fd0.minLength
          THEN << ValidationError(fd0.name, "minLength", fd0.minLength) >> ELSE << >>)
      \o (IF fd0.type = "number" /\ v.t = "num" /\ fd0.max # 0 /\ v.n > fd0.max
          THEN << ValidationError(fd0.name, "max", fd0.max) >> ELSE << >>)
      \o (IF fd0.type = "number" /\ v.t = "num" /\ fd0.min # 0 /\ v.n < fd0.min
          THEN << ValidationError(fd0.name, "min", fd0.min) >> ELSE << >>)

RECURSIVE ValidateUpdateFrom(_, _, _)
ValidateUpdateFrom(opts, i, data) ==
    IF i > Len(KeyOrder) THEN << >>
    ELSE (IF IsSchemaField(opts, KeyOrder[i])
          THEN UpdateFieldErrors(FieldOf(opts, KeyOrder[i]), data[KeyOrder[i]])
          ELSE << >>)
         \o ValidateUpdateFrom(opts, i + 1, data)

ValidateUpdateData(opts, data) ==
    LET errors == ValidateUpdateFrom(opts, 1, data)
    IN [isValid |-> Len(errors) = 0, errors |-> errors]

\* Object.entries order of a prepared update payload: the caller's keys, then
\* the updated_at stamp that prepareDataForUpdate adds behind them.
UpdateKeyOrder == << "id", "email", "age", "role", "created_at", "deleted_at", "updated_at" >>

\* What an operation hands back: a result or a thrown error.
ValidationFailed(errors) == [cat |-> "Validation", field |-> "", toks |-> {}, col |-> "",
                             errors |-> errors]
Thrown(msg) == [cat |-> msg.cat, field |-> msg.field, toks |-> msg.toks, col |-> msg.col,
                errors |-> << >>]
NotThrown == Thrown(NoError)

\* update(data, where) against the table: the thrown error or the QueryResult.
Update(opts, table, data, where) ==
    CHOOSE r \in
        {IF ~ValidateUpdateData(opts, prepared).isValid
         THEN [error |-> ValidationFailed(ValidateUpdateData(opts, prepared).errors),
               issued |-> << >>, params |-> << >>, table |-> t, changes |-> 0]
         ELSE CHOOSE u \in
                {IF ~b.ok
                 THEN [error |-> Thrown(Message("NoFieldsToUpdate", "", {}, "")),
                       issued |-> << >>, params |-> << >>, table |-> t, changes |-> 0]
                 ELSE CHOOSE v \in
                        {[error |-> NotThrown, issued |-> << b.sql >>, params |-> b.params,
                          table |-> res.table, changes |-> res.changes] :
                            res \in {ExecSql(t, 0, b.sql, b.params)}} : TRUE :
                   b \in {BuildUpdate(AddWhereConditions(NewQueryBuilder(TableName), 1,
                                                         where),
                                      UpdateKeyOrder, prepared)}} : TRUE :
           prepared \in {PrepareDataForUpdate(opts, data)}, t \in {table}} : TRUE

(***************************************************************************)
(* CrudOperations.create.  The run of one create call by a caller that     *)
(* nobody interleaves with: the stages it went through in order, the       *)
(* statements it issued, and the record it returned or the error it threw. *)
(* `fault` is what the executor does with the INSERT: "none" runs it, an   *)
(* "http ..." fault is a transport failure, "no row id" runs it and        *)
(* reports no last_row_id.                                                 *)
(***************************************************************************)
Faults == {"none", "http 400", "http 500", "no row id"}

NoHooks == [beforeCreate |-> FALSE, afterCreate |-> FALSE]

CreateOutcome(error, record, stages, issued, table, nid, prepared) ==
    [error |-> error, record |-> record, stages |-> stages, issued |-> issued,
     table |-> table, nextId |-> nid, prepared |-> prepared]

\* The INSERT as the executor answers it under a fault.
InsertResult(opts, table, nid, prepared, fault) ==
    LET res == ExecInsert(opts, table, nid, prepared)
    IN CASE fault = "none" -> res
         [] fault = "no row id" -> [res EXCEPT !.lastRowId = 0]
         [] OTHER -> QueryResult(FALSE, << >>, 0, 0, RawHttp(fault), table, nid)

\* Stages up to and including validation.
CreatePrologue(hooks) ==
    (IF hooks.beforeCreate THEN << "beforeCreate" >> ELSE << >>)
        \o << "defaults", "validate" >>

CreateEpilogue(hooks) == IF hooks.afterCreate THEN << "afterCreate" >> ELSE << >>

\* The one element of a singleton: a value computed once and then named.
TheOne(S) == CHOOSE x \in S : TRUE

\* The re-fetch of the inserted row and what create makes of it.
CreateRefetch(opts, hooks, insert, res, prepared) ==
    TheOne({IF FirstOrNull(fetch.records) = EmptyRecord
            THEN CreateOutcome(Thrown(Message("FailedToRetrieve", "", {}, "")), EmptyRecord,
                               CreatePrologue(hooks) \o << "INSERT", "refetch" >>,
                               << insert, fetch.sql >>, res.table, res.nextId, prepared)
            ELSE CreateOutcome(NotThrown, FirstOrNull(fetch.records),
                               CreatePrologue(hooks) \o << "INSERT", "refetch" >>
                                   \o CreateEpilogue(hooks),
                               << insert, fetch.sql >>, res.table, res.nextId, prepared) :
              fetch \in {RunQuery(res.table, FindByIdQuery(opts, Num(res.lastRowId)))}})

\* The INSERT of the prepared record and what follows it.
CreateInsert(opts, hooks, table, nid, prepared, fault) ==
    TheOne({IF ~res.success
            THEN CreateOutcome(Thrown(ExecuteQueryError(opts, res.error,
                                                        InsertSql(TableName, prepared))),
                               EmptyRecord, CreatePrologue(hooks) \o << "INSERT" >>,
                               << InsertSql(TableName, prepared) >>, table, nid, prepared)
            ELSE IF res.lastRowId = 0
            THEN CreateOutcome(Thrown(Message("FailedToCreate", "", {}, "")), EmptyRecord,
                               CreatePrologue(hooks) \o << "INSERT" >>,
                               << InsertSql(TableName, prepared) >>,
                               res.table, res.nextId, prepared)
            ELSE CreateRefetch(opts, hooks, InsertSql(TableName, prepared), res, prepared) :
              res \in {InsertResult(opts, table, nid, prepared, fault)}})

CreateRun(opts, hooks, table, nid, data, fault) ==
    TheOne({TheOne({IF ~validation.isValid
                    THEN CreateOutcome(ValidationFailed(validation.errors), EmptyRecord,
                                       CreatePrologue(hooks), << >>, table, nid, prepared)
                    ELSE CreateInsert(opts, hooks, table, nid, prepared, fault) :
                      validation \in {Validate(opts, prepared)}}) :
              prepared \in {PrepareDataForInsert(opts, data)}})

(***************************************************************************)
(* Specification SpecCreate: one caller running create calls one after the *)
(* other on the default schema, statement by statement as create's body    *)
(* runs them.                                                              *)
(***************************************************************************)
MaxRows == 2

Unused == "unused"

Emails == {Undef, Str("a@b.com", 7), Str("c@d.com", 7)}
Ages == {Undef, Num(MinAge - 3), Num(MinAge), Num(MaxAge), Num(MaxAge + 1), Str("x", 1)}
Roles == {Undef, Str("admin", 5)}

CreateInputs ==
    {[EmptyRecord EXCEPT !.email = e, !.age = a, !.role = r] :
        e \in Emails, a \in Ages, r \in Roles}

HookChoices == [beforeCreate : BOOLEAN, afterCreate : BOOLEAN]

CreateIdle ==
    [pc |-> "idle", data |-> EmptyRecord, hooks |-> NoHooks, fault |-> "none",
     prepared |-> EmptyRecord, stages |-> << >>, issued |-> << >>,
     error |-> NotThrown, record |-> EmptyRecord, lastRowId |-> 0,
     table0 |-> << >>, nextId0 |-> 1]

InitCreate ==
    /\ db = << >>
    /\ nextId = 1
    /\ cr = CreateIdle
    /\ up = Unused /\ lastWriter = Unused /\ fd = Unused
    /\ bk = Unused /\ pct = Unused /\ qb = Unused
    /\ ops = Unused

notCreate == <<up, lastWriter, fd, bk, pct, qb, ops>>

\* create(data) is called.
CreateCall ==
    /\ cr.pc = "idle"
    /\ Len(db) < MaxRows
    /\ \E data \in CreateInputs, hooks \in HookChoices, fault \in Faults :
          cr' = [CreateIdle EXCEPT !.pc = "beforeCreate", !.data = data, !.hooks = hooks,
                                   !.fault = fault, !.table0 = db, !.nextId0 = nextId]
    /\ UNCHANGED <<db, nextId, notCreate>>

\* if (this.hooks.beforeCreate) await this.hooks.beforeCreate(data)
BeforeCreateStep ==
    /\ cr.pc = "beforeCreate"
    /\ cr' = [cr EXCEPT !.pc = "prepare",
                        !.stages = IF cr.hooks.beforeCreate
                                   THEN Append(@, "beforeCreate") ELSE @]
    /\ UNCHANGED <<db, nextId, notCreate>>

\* const preparedData = this.prepareDataForInsert(data)
PrepareStep ==
    /\ cr.pc = "prepare"
    /\ cr' = [cr EXCEPT !.pc = "validate",
                        !.prepared = PrepareDataForInsert(DefaultOptions, cr.data),
                        !.stages = Append(@, "defaults")]
    /\ UNCHANGED <<db, nextId, notCreate>>

\* A create that computes the validation and never throws on it.
ValidateStepIgnored ==
    /\ cr.pc = "validate"
    /\ cr' = [cr EXCEPT !.pc = "insert", !.stages = Append(@, "validate")]
    /\ UNCHANGED <<db, nextId, notCreate>>

\* const validation = this.schema.validate(preparedData); throw when invalid
ValidateStep ==
    /\ cr.pc = "validate"
    /\ LET validation == Validate(DefaultOptions, cr.prepared)
       IN cr' = [cr EXCEPT !.pc = IF validation.isValid THEN "insert" ELSE "failed",
                           !.error = IF validation.isValid THEN @
                                     ELSE ValidationFailed(validation.errors),
                           !.stages = Append(@, "validate")]
    /\ UNCHANGED <<db, nextId, notCreate>>

\* const result = await this.executeQuery(sql, values), and the last_row_id test
InsertStep ==
    /\ cr.pc = "insert"
    /\ LET insert == InsertSql(TableName, cr.prepared)
           res == InsertResult(DefaultOptions, db, nextId, cr.prepared, cr.fault)
       IN /\ cr' = [cr EXCEPT
                      !.pc = IF res.success /\ res.lastRowId # 0 THEN "refetch" ELSE "failed",
                      !.error = IF ~res.success
                                THEN Thrown(ExecuteQueryError(DefaultOptions, res.error, insert))
                                ELSE IF res.lastRowId = 0
                                THEN Thrown(Message("FailedToCreate", "", {}, ""))
                                ELSE @,
                      !.lastRowId = res.lastRowId,
                      !.issued = Append(@, insert),
                      !.stages = Append(@, "INSERT")]
          /\ db' = res.table
          /\ nextId' = res.nextId
    /\ UNCHANGED notCreate

\* A re-fetch that goes on to the afterCreate hook whatever it found.
RefetchStepIgnoringMissing ==
    /\ cr.pc = "refetch"
    /\ LET fetch == RunQuery(db, FindByIdQuery(DefaultOptions, Num(cr.lastRowId)))
       IN cr' = [cr EXCEPT !.pc = "afterCreate",
                           !.record = FirstOrNull(fetch.records),
                           !.issued = Append(@, fetch.sql),
                           !.stages = Append(@, "refetch")]
    /\ UNCHANGED <<db, nextId, notCreate>>

\* const found = await this.findById(result.meta.last_row_id)
RefetchStep ==
    /\ cr.pc = "refetch"
    /\ LET fetch == RunQuery(db, FindByIdQuery(DefaultOptions, Num(cr.lastRowId)))
           found == FirstOrNull(fetch.records)
       IN cr' = [cr EXCEPT
                   !.pc = IF found = EmptyRecord THEN "failed" ELSE "afterCreate",
                   !.error = IF found = EmptyRecord
                             THEN Thrown(Message("FailedToRetrieve", "", {}, "")) ELSE @,
                   !.record = found,
                   !.issued = Append(@, fetch.sql),
                   !.stages = Append(@, "refetch")]
    /\ UNCHANGED <<db, nextId, notCreate>>

\* A create that returns without invoking the afterCreate hook.
AfterCreateStepSkipped ==
    /\ cr.pc = "afterCreate"
    /\ cr' = [cr EXCEPT !.pc = "done"]
    /\ UNCHANGED <<db, nextId, notCreate>>

\* if (this.hooks.afterCreate) await this.hooks.afterCreate(createdRecord); return
AfterCreateStep ==
    /\ cr.pc = "afterCreate"
    /\ cr' = [cr EXCEPT !.pc = "done",
                        !.stages = IF cr.hooks.afterCreate
                                   THEN Append(@, "afterCreate") ELSE @]
    /\ UNCHANGED <<db, nextId, notCreate>>

\* The call has returned or thrown; the caller goes on.
CreateReturn ==
    /\ cr.pc \in {"done", "failed"}
    /\ cr' = CreateIdle
    /\ UNCHANGED <<db, nextId, notCreate>>

NextCreate ==
    \/ CreateCall
    \/ BeforeCreateStep
    \/ PrepareStep
    \/ ValidateStep
    \/ InsertStep
    \/ RefetchStep
    \/ AfterCreateStep
    \/ CreateReturn

SpecCreate == InitCreate /\ [][NextCreate]_vars

(***************************************************************************)
(* Claims about create (SpecCreate)                                        *)
(***************************************************************************)
ScenarioData == [EmptyRecord EXCEPT !.email = Str("a@b.com", 7), !.age = Num(MinAge - 3)]
TwoViolations == [EmptyRecord EXCEPT !.age = Num(MaxAge + 1)]

PastValidation == cr.pc \in {"insert", "refetch", "afterCreate", "done", "failed"}

\* C3: a record that fails schema validation after defaulting makes create
\* throw a validation error that carries every violation, in declaration
\* order, with no statement issued and the table untouched; the scenario
\* record {email, age below the minimum} fails with exactly one error, which
\* names age and its minimum bound.
C3_ValidationIsLocal ==
    LET v == Validate(DefaultOptions, PrepareDataForInsert(DefaultOptions, cr.data))
    IN /\ (PastValidation /\ ~v.isValid) =>
              /\ cr.pc = "failed"
              /\ cr.error.cat = "Validation"
              /\ cr.error.errors = v.errors
              /\ Len(cr.error.errors) > 0
              /\ cr.issued = << >>
              /\ db = cr.table0 /\ nextId = cr.nextId0
       /\ (PastValidation /\ cr.data = ScenarioData) =>
              cr.error.errors = << ValidationError("age", "min", MinAge) >>
       /\ (PastValidation /\ cr.data = TwoViolations) =>
              cr.error.errors = << ValidationError("email", "required", 0),
                                   ValidationError("age", "max", MaxAge) >>

C3_Witness ==
    /\ cr.pc = "failed"
    /\ cr.data = ScenarioData
    /\ cr.error.cat = "Validation"
    /\ Len(db) > 0

ExpectedStages(hooks) ==
    (IF hooks.beforeCreate THEN << "beforeCreate" >> ELSE << >>)
        \o << "defaults", "validate", "INSERT", "refetch" >>
        \o (IF hooks.afterCreate THEN << "afterCreate" >> ELSE << >>)

\* C4: a create that returns has gone, once each and in this order, through
\* the beforeCreate hook (when one is registered), default injection,
\* validation of the prepared record, the INSERT, the re-fetch by the
\* generated id and the afterCreate hook (when registered), and returns the
\* re-fetched row, which is the prepared record as stored.
C4_CreateStageOrder ==
    cr.pc = "done" =>
        /\ cr.stages = ExpectedStages(cr.hooks)
        /\ cr.error = NotThrown
        /\ cr.prepared = PrepareDataForInsert(DefaultOptions, cr.data)
        /\ Validate(DefaultOptions, cr.prepared).isValid
        /\ Len(cr.issued) = 2
        /\ cr.issued[1].kind = "INSERT" /\ cr.issued[2].kind = "SELECT"
        /\ cr.lastRowId = cr.nextId0
        /\ cr.record = StoredRow(cr.prepared, cr.lastRowId)
        /\ \E i \in 1..Len(db) : db[i] = cr.record

C4_Witness ==
    /\ cr.pc = "done"
    /\ cr.hooks.beforeCreate /\ cr.hooks.afterCreate
    /\ Len(cr.stages) = 6

HasError(errors, field, kind) ==
    \E i \in 1..Len(errors) : errors[i].field = field /\ errors[i].kind = kind
NamesField(errors, field) == \E i \in 1..Len(errors) : errors[i].field = field

\* C5: before validation a field the caller left unset holds its declared
\* default (the literal, or the producer's result as an ISO string), a value
\* the caller supplied is kept, and validation runs on the defaulted record:
\* the omitted required field with a default (role) raises no error and is
\* stored with the default, the omitted required field without one (email)
\* fails the create.
C5_DefaultsBeforeValidation ==
    /\ cr.pc \in {"validate", "insert", "refetch", "afterCreate", "done", "failed"} =>
          /\ \A f \in FieldNames : cr.data[f] # Undef => cr.prepared[f] = cr.data[f]
          /\ cr.data.role = Undef => cr.prepared.role = Str("user", 4)
          /\ cr.prepared.created_at = ToISOString(Clock)
          /\ cr.prepared.updated_at = ToISOString(Clock)
    /\ PastValidation =>
          /\ cr.data.role = Undef => ~NamesField(cr.error.errors, "role")
          /\ cr.data.email = Undef =>
                cr.pc = "failed" /\ HasError(cr.error.errors, "email", "required")
    /\ (cr.pc = "done" /\ cr.data.role = Undef) => cr.record.role = Str("user", 4)
    /\ (cr.pc = "done" /\ cr.data.role # Undef) => cr.record.role = cr.data.role

C5_Witness ==
    /\ cr.pc = "done"
    /\ cr.data.role = Undef
    /\ cr.record.role = Str("user", 4)
    /\ \E i \in 1..Len(db) : db[i].role = Str("admin", 5)

(***************************************************************************)
(* Specification SpecUpsert: two callers, each running one upsert with the *)
(* same unique key against the shared table.  Every statement a call sends *)
(* to the executor is one step, so the callers interleave between their    *)
(* find, insert, re-fetch and update statements.                           *)
(***************************************************************************)
Callers == {"a", "b"}

Key == Str("a@b.com", 7)
OtherKey == Str("c@d.com", 7)

UpsertStyles == {"fields", "prisma"}
UpsertFaults == {"none", "http 400", "http 500"}

AgeOf(p) == IF p = "a" THEN Num(MinAge) ELSE Num(MaxAge)

\* The payload a caller creates with, and the payload it updates with: the
\* data itself in the (data, uniqueFields) form, the `update` member in the
\* {where, create, update} form.
CreatePayload(p) == [EmptyRecord EXCEPT !.email = Key, !.age = AgeOf(p)]
UpdatePayload(p, style) ==
    IF style \in {"fields", "byId"} THEN CreatePayload(p)
    ELSE [EmptyRecord EXCEPT !.age = AgeOf(p), !.role = Str("admin", 5)]

\* whereConditions built from the unique fields the data defines.
WhereFromUnique(data, uniqueFields) ==
    [f \in FieldNames |-> IF f \in uniqueFields THEN data[f] ELSE Undef]

UpsertWhere(p, style) ==
    IF style = "fields" THEN WhereFromUnique(CreatePayload(p), {"email"})
    ELSE [EmptyRecord EXCEPT !.email = Key]

UpsertResult(record, created, updated) ==
    [record |-> record, created |-> created, updated |-> updated]
NoResult == UpsertResult(EmptyRecord, FALSE, FALSE)

NoWriter == [who |-> "", kind |-> ""]

UpsertIdle ==
    [pc |-> "idle", style |-> "fields", fault |-> "none", existing |-> EmptyRecord,
     lastRowId |-> 0, createError |-> NotThrown, retried |-> FALSE,
     refound |-> EmptyRecord, issued |-> << >>, updId |-> Undef, updData |-> EmptyRecord,
     error |-> NotThrown, result |-> NoResult]

ExistingRow(key) ==
    StoredRow(PrepareDataForInsert(DefaultOptions,
                  [EmptyRecord EXCEPT !.email = key, !.age = Num(MinAge + 1)]), 1)

InitUpsert ==
    /\ db \in {<< >>, << ExistingRow(Key) >>, << ExistingRow(OtherKey) >>}
    /\ nextId = Len(db) + 1
    /\ up = [p \in Callers |-> UpsertIdle]
    /\ lastWriter = NoWriter
    /\ cr = Unused /\ fd = Unused /\ bk = Unused /\ pct = Unused /\ qb = Unused
    /\ ops = Unused

notUpsert == <<cr, fd, bk, pct, qb, ops>>

\* upsert(...) is called in one of its two forms.
UpsertCall(p) ==
    /\ up[p].pc = "idle"
    /\ \E style \in UpsertStyles, fault \in UpsertFaults :
          up' = [up EXCEPT ![p] = [UpsertIdle EXCEPT !.pc = "find", !.style = style,
                                                     !.fault = fault]]
    /\ UNCHANGED <<db, nextId, lastWriter, notUpsert>>

\* const existingRecord = await this.findOne({ where })
UpsertFind(p) ==
    /\ up[p].pc = "find"
    /\ LET q == RunQuery(db, FindOneQuery(DefaultOptions, UpsertWhere(p, up[p].style)))
           found == FirstOrNull(q.records)
       IN up' = [up EXCEPT ![p].pc = IF found = EmptyRecord THEN "create" ELSE "update",
                           ![p].existing = found,
                           ![p].issued = Append(@, q.sql.kind)]
    /\ UNCHANGED <<db, nextId, lastWriter, notUpsert>>

\* A create failure handler that retries whatever the failure was.
UpsertCreateRetryAlways(p) ==
    /\ up[p].pc = "create"
    /\ LET prepared == PrepareDataForInsert(DefaultOptions, CreatePayload(p))
           insert == InsertSql(TableName, prepared)
           res == InsertResult(DefaultOptions, db, nextId, prepared, up[p].fault)
           thrown == Thrown(ExecuteQueryError(DefaultOptions, res.error, insert))
       IN /\ up' = [up EXCEPT
                      ![p].pc = IF res.success THEN "refetch" ELSE "refind",
                      ![p].createError = IF res.success THEN @ ELSE thrown,
                      ![p].lastRowId = res.lastRowId,
                      ![p].issued = Append(@, "INSERT")]
          /\ db' = res.table
          /\ nextId' = res.nextId
          /\ lastWriter' = IF res.success THEN [who |-> p, kind |-> "INSERT"]
                           ELSE lastWriter
    /\ UNCHANGED notUpsert

\* try { const newRecord = await this.create(...) } up to create's INSERT,
\* and the catch block's test of the message.
UpsertCreate(p) ==
    /\ up[p].pc = "create"
    /\ LET prepared == PrepareDataForInsert(DefaultOptions, CreatePayload(p))
           validation == Validate(DefaultOptions, prepared)
           insert == InsertSql(TableName, prepared)
           res == InsertResult(DefaultOptions, db, nextId, prepared, up[p].fault)
           thrown == IF ~res.success
                     THEN Thrown(ExecuteQueryError(DefaultOptions, res.error, insert))
                     ELSE Thrown(Message("FailedToCreate", "", {}, ""))
       IN IF ~validation.isValid
          THEN /\ up' = [up EXCEPT ![p].pc = "failed",
                                   ![p].createError = ValidationFailed(validation.errors),
                                   ![p].error = ValidationFailed(validation.errors)]
               /\ UNCHANGED <<db, nextId, lastWriter>>
          ELSE /\ up' = [up EXCEPT
                           ![p].pc = IF res.success /\ res.lastRowId # 0 THEN "refetch"
                                     ELSE IF MentionsDuplicate(thrown) THEN "refind"
                                     ELSE "failed",
                           ![p].createError = IF res.success /\ res.lastRowId # 0 THEN @
                                              ELSE thrown,
                           ![p].error = IF res.success /\ res.lastRowId # 0 THEN @
                                        ELSE IF MentionsDuplicate(thrown) THEN @
                                        ELSE thrown,
                           ![p].lastRowId = res.lastRowId,
                           ![p].issued = Append(@, "INSERT")]
               /\ db' = res.table
               /\ nextId' = res.nextId
               /\ lastWriter' = IF res.success THEN [who |-> p, kind |-> "INSERT"]
                                ELSE lastWriter
    /\ UNCHANGED notUpsert

\* create's re-fetch of the inserted row, and upsert's return of it.
UpsertRefetch(p) ==
    /\ up[p].pc = "refetch"
    /\ LET q == RunQuery(db, FindByIdQuery(DefaultOptions, Num(up[p].lastRowId)))
           found == FirstOrNull(q.records)
           thrown == Thrown(Message("FailedToRetrieve", "", {}, ""))
       IN up' = [up EXCEPT
                   ![p].pc = IF found # EmptyRecord THEN "done"
                             ELSE IF MentionsDuplicate(thrown) THEN "refind" ELSE "failed",
                   ![p].createError = IF found # EmptyRecord THEN @ ELSE thrown,
                   ![p].error = IF found # EmptyRecord THEN @ ELSE thrown,
                   ![p].result = IF found # EmptyRecord
                                 THEN UpsertResult(found, TRUE, FALSE) ELSE @,
                   ![p].issued = Append(@, q.sql.kind)]
    /\ UNCHANGED <<db, nextId, lastWriter, notUpsert>>

\* The catch block: const existingRecord = await this.findOne({ where });
\* throw error when none is found.
UpsertRefind(p) ==
    /\ up[p].pc = "refind"
    /\ LET q == RunQuery(db, FindOneQuery(DefaultOptions, UpsertWhere(p, up[p].style)))
           found == FirstOrNull(q.records)
       IN up' = [up EXCEPT ![p].pc = IF found = EmptyRecord THEN "failed" ELSE "update",
                           ![p].retried = TRUE,
                           ![p].refound = found,
                           ![p].existing = found,
                           ![p].error = IF found = EmptyRecord THEN up[p].createError ELSE @,
                           ![p].issued = Append(@, q.sql.kind)]
    /\ UNCHANGED <<db, nextId, lastWriter, notUpsert>>

\* updateById(existingRecord.id, payload): the UPDATE of update(data, { id }).
UpsertUpdate(p) ==
    /\ up[p].pc = "update"
    /\ LET data == UpdatePayload(p, up[p].style)
           res == Update(DefaultOptions, db, data,
                         [EmptyRecord EXCEPT !.id = up[p].existing.id])
       IN /\ up' = [up EXCEPT
                      ![p].pc = IF res.error # NotThrown THEN "failed"
                                ELSE IF res.changes > 0 THEN "reread" ELSE "done",
                      ![p].error = res.error,
                      ![p].updId = up[p].existing.id,
                      ![p].updData = data,
                      ![p].result = IF res.error = NotThrown /\ res.changes = 0
                                    THEN UpsertResult(up[p].existing, FALSE, TRUE) ELSE @,
                      ![p].issued = @ \o [i \in 1..Len(res.issued) |-> res.issued[i].kind]]
          /\ db' = res.table
          /\ lastWriter' = IF res.error = NotThrown /\ res.changes > 0
                           THEN [who |-> p, kind |-> "UPDATE"] ELSE lastWriter
    /\ UNCHANGED <<nextId, notUpsert>>

\* updateById's findById(id), and upsert's `updatedRecord || existingRecord`.
UpsertReread(p) ==
    /\ up[p].pc = "reread"
    /\ LET q == RunQuery(db, FindByIdQuery(DefaultOptions, up[p].updId))
           found == FirstOrNull(q.records)
       IN up' = [up EXCEPT
                   ![p].pc = "done",
                   ![p].result = UpsertResult(IF found # EmptyRecord THEN found
                                              ELSE up[p].existing, FALSE, TRUE),
                   ![p].issued = Append(@, q.sql.kind)]
    /\ UNCHANGED <<db, nextId, lastWriter, notUpsert>>

NextUpsert ==
    \E p \in Callers :
        \/ UpsertCall(p)
        \/ UpsertFind(p)
        \/ UpsertCreate(p)
        \/ UpsertRefetch(p)
        \/ UpsertRefind(p)
        \/ UpsertUpdate(p)
        \/ UpsertReread(p)

SpecUpsert == InitUpsert /\ [][NextUpsert]_vars

(***************************************************************************)
(* Claims about upsert (SpecUpsert)                                        *)
(***************************************************************************)
Returned(p) == up[p].pc \in {"done", "failed"}

RowsWithKey == {i \in 1..Len(db) : db[i].email = Key}

WriterPayload ==
    IF lastWriter.kind = "INSERT" THEN CreatePayload(lastWriter.who)
    ELSE UpdatePayload(lastWriter.who, up[lastWriter.who].style)

\* C1: when two upsert calls with the same unique key have both returned,
\* however their find, insert and update statements interleaved and with an
\* executor that fails no statement for reasons of its own: each call
\* returned a result that is either {created:true, updated:false} or
\* {created:false, updated:true}, at most one call reports created, no call
\* threw, exactly one row holds the key, and that row holds every field of
\* the payload of the call that wrote last (its create payload when its
\* write was the INSERT, its update payload when it was an UPDATE).
C1_UpsertConverges ==
    ((\A p \in Callers : Returned(p) /\ up[p].fault = "none")) =>
        /\ \A p \in Callers :
              /\ up[p].pc = "done"
              /\ up[p].error = NotThrown
              /\ up[p].result.created # up[p].result.updated
              /\ up[p].result.record # EmptyRecord
              /\ up[p].result.record.email = Key
        /\ Cardinality({p \in Callers : up[p].result.created}) <= 1
        /\ Cardinality(RowsWithKey) = 1
        /\ lastWriter # NoWriter
        /\ \A i \in RowsWithKey : \A f \in FieldNames :
              WriterPayload[f] # Undef => db[i][f] = WriterPayload[f]

C1_Witness ==
    /\ \A p \in Callers : up[p].pc = "done" /\ up[p].fault = "none"
    /\ up["a"].result.created
    /\ up["b"].retried /\ up["b"].result.updated
    /\ lastWriter = [who |-> "b", kind |-> "UPDATE"]
    /\ \A i \in RowsWithKey : db[i].age = AgeOf("b")

HasIssued(p, kind) == \E i \in 1..Len(up[p].issued) : up[p].issued[i] = kind

\* C2: when upsert found no record and its create threw, then: if the error
\* is classified as a duplicate entry, upsert ran findOne again, and if that
\* found a record it sent the UPDATE of its update payload to that record's
\* id and returned {created:false, updated:true}, while if it found none it
\* threw create's error without sending an UPDATE; if the error is of any
\* other class, upsert threw it as it was, without a second findOne and
\* without an UPDATE.
C2_UpsertRetry ==
    \A p \in Callers :
        (Returned(p) /\ up[p].createError # NotThrown) =>
            IF up[p].createError.cat = "DuplicateEntry"
            THEN /\ up[p].retried
                 /\ up[p].issued[3] = "SELECT"
                 /\ IF up[p].refound # EmptyRecord
                    THEN /\ up[p].pc = "done"
                         /\ up[p].error = NotThrown
                         /\ up[p].result.created = FALSE /\ up[p].result.updated = TRUE
                         /\ HasIssued(p, "UPDATE")
                         /\ up[p].updId = up[p].refound.id
                         /\ up[p].updData = UpdatePayload(p, up[p].style)
                         /\ up[p].refound.email = Key
                    ELSE /\ up[p].pc = "failed"
                         /\ up[p].error = up[p].createError
                         /\ ~HasIssued(p, "UPDATE")
            ELSE /\ up[p].pc = "failed"
                 /\ up[p].error = up[p].createError
                 /\ ~up[p].retried
                 /\ up[p].issued = << "SELECT", "INSERT" >>
                 /\ ~HasIssued(p, "UPDATE")

C2_Witness ==
    /\ up["b"].pc = "done"
    /\ up["b"].createError.cat = "DuplicateEntry"
    /\ up["b"].refound # EmptyRecord
    /\ up["b"].result.updated /\ ~up["b"].result.created
    /\ up["b"].fault = "none"
    /\ up["a"].pc = "done" /\ up["a"].result.created

(***************************************************************************)
(* AdvancedModel.softDelete and AdvancedModel.restore                      *)
(***************************************************************************)
\* update({ deleted_at: new Date() }, where); the schema has soft deletes on.
SoftDelete(opts, table, where) ==
    Update(opts, table, [EmptyRecord EXCEPT !.deleted_at = Clock], where)

\* update({ deleted_at: null }, where)
Restore(opts, table, where) ==
    Update(opts, table, [EmptyRecord EXCEPT !.deleted_at = Null], where)

(***************************************************************************)
(* Specification SpecFind: a soft-delete-enabled, non-paranoid model whose *)
(* caller creates records, soft-deletes some and runs the three finders.   *)
(***************************************************************************)
FindIds == {Num(i) : i \in 1..MaxRows}

FindWheres ==
    {EmptyRecord, [EmptyRecord EXCEPT !.email = Key]}
        \cup {[EmptyRecord EXCEPT !.id = i] : i \in FindIds}

FindCreateInputs ==
    {[EmptyRecord EXCEPT !.email = e, !.age = a] :
        e \in {Key, OtherKey}, a \in {Num(MinAge), Num(MaxAge)}}

FindIdle == [op |-> "none", sql |-> Build(NewQueryBuilder(TableName)).sql,
             records |-> << >>, changes |-> 0]

InitFind ==
    /\ db = << >>
    /\ nextId = 1
    /\ fd = FindIdle
    /\ cr = Unused /\ up = Unused /\ lastWriter = Unused
    /\ bk = Unused /\ pct = Unused /\ qb = Unused
    /\ ops = Unused

notFind == <<cr, up, lastWriter, bk, pct, qb, ops>>

FindCreate ==
    /\ Len(db) < MaxRows
    /\ \E data \in FindCreateInputs :
          LET run == CreateRun(SoftDeleteOptions, NoHooks, db, nextId, data, "none")
          IN /\ db' = run.table
             /\ nextId' = run.nextId
             /\ fd' = [FindIdle EXCEPT !.op = "create"]
    /\ UNCHANGED notFind

FindSoftDelete ==
    /\ \E where \in FindWheres :
          LET res == SoftDelete(SoftDeleteOptions, db, where)
          IN /\ res.error = NotThrown
             /\ db' = res.table
             /\ fd' = [FindIdle EXCEPT !.op = "softDelete", !.changes = res.changes]
    /\ UNCHANGED <<nextId, notFind>>

FindByIdCall ==
    /\ \E id \in FindIds :
          LET q == RunQuery(db, FindByIdQuery(SoftDeleteOptions, id))
              found == FirstOrNull(q.records)
          IN fd' = [FindIdle EXCEPT !.op = "findById", !.sql = q.sql,
                       !.records = IF found = EmptyRecord THEN << >> ELSE << found >>]
    /\ UNCHANGED <<db, nextId, notFind>>

FindOneCall ==
    /\ \E where \in FindWheres :
          LET q == RunQuery(db, FindOneQuery(SoftDeleteOptions, where))
              found == FirstOrNull(q.records)
          IN fd' = [FindIdle EXCEPT !.op = "findOne", !.sql = q.sql,
                       !.records = IF found = EmptyRecord THEN << >> ELSE << found >>]
    /\ UNCHANGED <<db, nextId, notFind>>

FindAllCall ==
    /\ \E where \in FindWheres :
          LET q == RunQuery(db, FindAllQuery(SoftDeleteOptions, where))
          IN fd' = [FindIdle EXCEPT !.op = "findAll", !.sql = q.sql, !.records = q.records]
    /\ UNCHANGED <<db, nextId, notFind>>

NextFind ==
    \/ FindCreate
    \/ FindSoftDelete
    \/ FindByIdCall
    \/ FindOneCall
    \/ FindAllCall

SpecFind == InitFind /\ [][NextFind]_vars

(***************************************************************************)
(* Claims about the finders (SpecFind)                                     *)
(***************************************************************************)
FiltersSoftDeleted(sql) ==
    \E i \in 1..Len(sql.where) : sql.where[i] = Compiled("deleted_at", "IS NULL", 0)

\* C6: on the soft-delete-enabled, non-paranoid model every statement that
\* findById, findOne or findAll compiles holds the condition
\* deleted_at IS NULL, and no record they return is soft-deleted.
C6_FindersSkipSoftDeleted ==
    fd.op \in {"findById", "findOne", "findAll"} =>
        /\ FiltersSoftDeleted(fd.sql)
        /\ \A i \in 1..Len(fd.records) : fd.records[i].deleted_at = Null

\* What holds of the finders that go through buildQueryFromOptions.
C6_OptionFindersSkipSoftDeleted ==
    fd.op \in {"findOne", "findAll"} =>
        /\ FiltersSoftDeleted(fd.sql)
        /\ \A i \in 1..Len(fd.records) : fd.records[i].deleted_at = Null

C6_FindByIdReturnsSoftDeleted ==
    /\ fd.op = "findById"
    /\ ~FiltersSoftDeleted(fd.sql)
    /\ Len(fd.records) = 1
    /\ fd.records[1].deleted_at # Null

(***************************************************************************)
(* CrudOperations.delete                                                   *)
(***************************************************************************)
\* delete(where): the thrown error or the number of rows deleted.  `fault`
\* is what the executor does with the DELETE: "none" runs it.
Delete(opts, table, where, fault) ==
    LET b == BuildDelete(AddWhereConditions(NewQueryBuilder(TableName), 1, where))
        res == IF fault = "none" THEN ExecSql(table, 0, b.sql, b.params)
               ELSE QueryResult(FALSE, << >>, 0, 0, RawHttp(fault), table, 0)
    IN IF ~res.success
       THEN [error |-> Thrown(ExecuteQueryError(opts, res.error, b.sql)),
             issued |-> << b.sql >>, table |-> table, changes |-> 0]
       ELSE [error |-> NotThrown, issued |-> << b.sql >>,
             table |-> res.table, changes |-> res.changes]

(***************************************************************************)
(* Specification SpecBulk: one bulk call, item by item.  BulkOperations'   *)
(* bulkCreate, bulkUpdate and bulkDelete return a BulkResult;              *)
(* AdvancedModel.bulkCreate, the method a model built from AdvancedModel   *)
(* runs, returns the list of the records it created.                       *)
(***************************************************************************)
MaxItems == 3
MaxChunk == 2
DefaultChunkSize == 100

BulkOps == {"bulkCreate", "advBulkCreate", "bulkUpdate", "bulkDelete"}

\* options.continueOnError: absent, true or false.
ContinueChoices == {"unset", "true", "false"}

\* const { continueOnError = true } = options
ContinueBulk(coe) == coe # "false"
\* if (!options.continueOnError) throw error
ContinueAdvanced(coe) == coe = "true"

ItemKinds == {"ok", "bad", "dup"}

ItemLists == UNION {[1..n -> ItemKinds] : n \in 0..MaxItems}

ItemEmail(pos) == Str("u" \o ToString(pos) \o "@x.com", 8)

\* The record of a create item: valid, below the minimum age, or holding the
\* unique key that is already stored.
CreateItem(kind, pos) ==
    CASE kind = "ok" -> [EmptyRecord EXCEPT !.email = ItemEmail(pos), !.age = Num(MinAge)]
      [] kind = "bad" -> [EmptyRecord EXCEPT !.email = ItemEmail(pos), !.age = Num(MinAge - 3)]
      [] OTHER -> [EmptyRecord EXCEPT !.email = Key, !.age = Num(MinAge)]

\* The { where, data } of an update item: a change of the stored record, a
\* change that fails validation, or a change of a record that does not exist.
UpdateItem(kind, pos) ==
    CASE kind = "ok" -> [where |-> [EmptyRecord EXCEPT !.email = Key],
                         data |-> [EmptyRecord EXCEPT !.age = Num(MaxAge)]]
      [] kind = "bad" -> [where |-> [EmptyRecord EXCEPT !.email = Key],
                          data |-> [EmptyRecord EXCEPT !.age = Num(MinAge - 3)]]
      [] OTHER -> [where |-> [EmptyRecord EXCEPT !.email = OtherKey],
                   data |-> [EmptyRecord EXCEPT !.age = Num(MaxAge)]]

\* The where of a delete item and what the executor does with its DELETE.
DeleteItem(kind, pos) ==
    CASE kind = "ok" -> [where |-> [EmptyRecord EXCEPT !.email = Key], fault |-> "none"]
      [] kind = "bad" -> [where |-> [EmptyRecord EXCEPT !.email = Key], fault |-> "http 500"]
      [] OTHER -> [where |-> [EmptyRecord EXCEPT !.email = OtherKey], fault |-> "none"]

BulkIdle ==
    [pc |-> "idle", op |-> "bulkCreate", items |-> << >>, coe |-> "unset",
     chunkSize |-> DefaultChunkSize, i |-> 0, j |-> 0,
     created |-> 0, updated |-> 0, deleted |-> 0, errors |-> << >>,
     hasReport |-> FALSE, returned |-> << >>, error |-> NotThrown,
     attempted |-> << >>, failed |-> << >>]

InitBulk ==
    /\ db \in {<< >>, << ExistingRow(Key) >>}
    /\ nextId = Len(db) + 1
    /\ bk = BulkIdle
    /\ cr = Unused /\ up = Unused /\ lastWriter = Unused
    /\ fd = Unused /\ pct = Unused /\ qb = Unused
    /\ ops = Unused

notBulk == <<cr, up, lastWriter, fd, pct, qb, ops>>

BulkErrorEntry(index, error) == [index |-> index, error |-> error]

\* A bulk method is called; a loop over an empty list returns at once.
BulkCall ==
    /\ bk.pc = "idle"
    /\ \E op \in BulkOps, items \in ItemLists, coe \in ContinueChoices,
          chunkSize \in (1..MaxChunk) \cup {DefaultChunkSize} :
          /\ op # "bulkCreate" => chunkSize = DefaultChunkSize
          /\ bk' = [BulkIdle EXCEPT !.pc = IF Len(items) = 0 THEN "done" ELSE "run",
                                    !.op = op, !.items = items, !.coe = coe,
                                    !.chunkSize = chunkSize,
                                    !.hasReport = op # "advBulkCreate"]
    /\ UNCHANGED <<db, nextId, notBulk>>

\* BulkOperations.bulkCreate: one pass of the inner loop, and the loop
\* headers that follow it.
BulkCreateItem ==
    /\ bk.pc = "run" /\ bk.op = "bulkCreate"
    /\ \E chunk \in {SubSeq(bk.items, bk.i + 1,
                              IF bk.i + bk.chunkSize < Len(bk.items)
                              THEN bk.i + bk.chunkSize ELSE Len(bk.items))} :
       \E run \in {CreateRun(DefaultOptions, NoHooks, db, nextId,
                             CreateItem(chunk[bk.j + 1], bk.i + bk.j + 1), "none")} :
       LET n == Len(bk.items)
           recordIndex == bk.i + bk.j
           ok == run.error = NotThrown
           chunkDone == bk.j + 1 >= Len(chunk)
           i2 == IF chunkDone THEN bk.i + bk.chunkSize ELSE bk.i
       IN /\ bk' = [bk EXCEPT
                      !.pc = IF ~ok /\ ~ContinueBulk(bk.coe) THEN "thrown"
                             ELSE IF i2 >= n THEN "done" ELSE "run",
                      !.i = i2,
                      !.j = IF chunkDone THEN 0 ELSE bk.j + 1,
                      !.created = IF ok THEN @ + 1 ELSE @,
                      !.errors = IF ok THEN @
                                 ELSE Append(@, BulkErrorEntry(recordIndex, run.error)),
                      !.error = IF ~ok /\ ~ContinueBulk(bk.coe)
                                THEN Thrown(Message("BulkFailed", "", {}, "")) ELSE @,
                      !.attempted = Append(@, recordIndex),
                      !.failed = IF ok THEN @ ELSE Append(@, recordIndex)]
          /\ db' = run.table
          /\ nextId' = run.nextId
    /\ UNCHANGED notBulk

\* AdvancedModel.bulkCreate: one pass of its loop.
AdvancedBulkCreateItem ==
    /\ bk.pc = "run" /\ bk.op = "advBulkCreate"
    /\ \E run \in {CreateRun(DefaultOptions, NoHooks, db, nextId,
                             CreateItem(bk.items[bk.i + 1], bk.i + 1), "none")} :
       LET n == Len(bk.items)
           ok == run.error = NotThrown
       IN /\ bk' = [bk EXCEPT
                      !.pc = IF ~ok /\ ~ContinueAdvanced(bk.coe) THEN "thrown"
                             ELSE IF bk.i + 1 >= n THEN "done" ELSE "run",
                      !.i = bk.i + 1,
                      !.returned = IF ok THEN Append(@, run.record) ELSE @,
                      !.error = IF ~ok /\ ~ContinueAdvanced(bk.coe) THEN run.error ELSE @,
                      !.attempted = Append(@, bk.i),
                      !.failed = IF ok THEN @ ELSE Append(@, bk.i)]
          /\ db' = run.table
          /\ nextId' = run.nextId
    /\ UNCHANGED notBulk

\* BulkOperations.bulkUpdate: one pass of its loop.
BulkUpdateItem ==
    /\ bk.pc = "run" /\ bk.op = "bulkUpdate"
    /\ \E item \in {UpdateItem(bk.items[bk.i + 1], bk.i + 1)} :
       \E res \in {Update(DefaultOptions, db, item.data, item.where)} :
       LET n == Len(bk.items)
           ok == res.error = NotThrown
       IN /\ bk' = [bk EXCEPT
                      !.pc = IF ~ok /\ ~ContinueBulk(bk.coe) THEN "thrown"
                             ELSE IF bk.i + 1 >= n THEN "done" ELSE "run",
                      !.i = bk.i + 1,
                      !.updated = IF ok THEN @ + res.changes ELSE @,
                      !.errors = IF ok THEN @ ELSE Append(@, BulkErrorEntry(bk.i, res.error)),
                      !.error = IF ~ok /\ ~ContinueBulk(bk.coe)
                                THEN Thrown(Message("BulkFailed", "", {}, "")) ELSE @,
                      !.attempted = Append(@, bk.i),
                      !.failed = IF ok THEN @ ELSE Append(@, bk.i)]
          /\ db' = res.table
    /\ UNCHANGED <<nextId, notBulk>>

\* BulkOperations.bulkDelete: one pass of its loop.
BulkDeleteItem ==
    /\ bk.pc = "run" /\ bk.op = "bulkDelete"
    /\ \E item \in {DeleteItem(bk.items[bk.i + 1], bk.i + 1)} :
       \E res \in {Delete(DefaultOptions, db, item.where, item.fault)} :
       LET n == Len(bk.items)
           ok == res.error = NotThrown
       IN /\ bk' = [bk EXCEPT
                      !.pc = IF ~ok /\ ~ContinueBulk(bk.coe) THEN "thrown"
                             ELSE IF bk.i + 1 >= n THEN "done" ELSE "run",
                      !.i = bk.i + 1,
                      !.deleted = IF ok THEN @ + res.changes ELSE @,
                      !.errors = IF ok THEN @ ELSE Append(@, BulkErrorEntry(bk.i, res.error)),
                      !.error = IF ~ok /\ ~ContinueBulk(bk.coe)
                                THEN Thrown(Message("BulkFailed", "", {}, "")) ELSE @,
                      !.attempted = Append(@, bk.i),
                      !.failed = IF ok THEN @ ELSE Append(@, bk.i)]
          /\ db' = res.table
    /\ UNCHANGED <<nextId, notBulk>>

NextBulk ==
    \/ BulkCall
    \/ BulkCreateItem
    \/ AdvancedBulkCreateItem
    \/ BulkUpdateItem
    \/ BulkDeleteItem

SpecBulk == InitBulk /\ [][NextBulk]_vars

(***************************************************************************)
(* Claims about the bulk operations (SpecBulk)                             *)
(***************************************************************************)
BulkReturned == bk.pc \in {"done", "thrown"}

\* The 0-based positions of the items that fail validation in create.
FailValidation ==
    {n \in 0..(Len(bk.items) - 1) :
        ~Validate(DefaultOptions,
                  PrepareDataForInsert(DefaultOptions,
                                       CreateItem(bk.items[n + 1], n + 1))).isValid}

\* Every item either fails validation or is a record that can be stored.
OnlyValidationFailures == \A n \in 1..Len(bk.items) : bk.items[n] # "dup"

ErrorIndexes == [k \in 1..Len(bk.errors) |-> bk.errors[k].index]

RECURSIVE Ascending(_, _)
Ascending(set, from) ==
    IF set = {} THEN << >>
    ELSE IF from \in set THEN << from >> \o Ascending(set \ {from}, from + 1)
    ELSE Ascending(set, from + 1)

Retrievable(n) ==
    FindOne(DefaultOptions, db,
            [EmptyRecord EXCEPT !.email = CreateItem(bk.items[n + 1], n + 1).email])
        # EmptyRecord

BulkCreateReport ==
    /\ bk.pc = "done"
    /\ bk.hasReport
    /\ bk.created = Len(bk.items) - Cardinality(FailValidation)
    /\ Len(bk.errors) = Cardinality(FailValidation)
    /\ ErrorIndexes = Ascending(FailValidation, 0)
    /\ \A n \in 0..(Len(bk.items) - 1) : n \notin FailValidation => Retrievable(n)

\* C7: a bulkCreate call that is not told to stop at the first error, on N
\* items of which exactly K fail validation (the others can be stored),
\* returns a report with created = N-K and K error entries whose indexes are
\* the positions of the failing items in the input list, for every chunk
\* size, and every other item can be found afterwards.  Stated of both
\* methods named bulkCreate.
C7_BulkCreateAccounting ==
    (BulkReturned /\ bk.op \in {"bulkCreate", "advBulkCreate"}
        /\ bk.coe # "false" /\ OnlyValidationFailures) => BulkCreateReport

\* The same statement of BulkOperations.bulkCreate alone.
C7_BulkOperationsAccounting ==
    (BulkReturned /\ bk.op = "bulkCreate"
        /\ bk.coe # "false" /\ OnlyValidationFailures) => BulkCreateReport

C7_ChunkedReport ==
    /\ bk.pc = "done" /\ bk.op = "bulkCreate" /\ bk.chunkSize = MaxChunk
    /\ Len(bk.items) = MaxItems
    /\ OnlyValidationFailures
    /\ ErrorIndexes = << MaxItems - 1 >>
    /\ bk.created = MaxItems - 1

C7_AdvancedThrows ==
    /\ bk.pc = "thrown" /\ bk.op = "advBulkCreate" /\ bk.coe = "unset"
    /\ OnlyValidationFailures
    /\ bk.error.cat = "Validation"

AllIndexes == [k \in 1..Len(bk.items) |-> k - 1]

BulkContinues ==
    IF bk.coe = "false" /\ Len(bk.failed) > 0
    THEN /\ bk.pc = "thrown"
         /\ bk.failed = << bk.attempted[Len(bk.attempted)] >>
         /\ bk.attempted = SubSeq(AllIndexes, 1, Len(bk.attempted))
    ELSE /\ bk.pc = "done"
         /\ bk.attempted = AllIndexes
         /\ ErrorIndexes = bk.failed

\* C8: every bulk operation attempts each item of its list, records the
\* items that fail in errors and goes on to the next item; only when
\* continueOnError is false does it throw at the first failing item, with no
\* later item attempted.
C8_BulkContinuesOnError == BulkReturned => BulkContinues

\* The same statement of the three BulkOperations methods alone.
C8_BulkOperationsContinue == (BulkReturned /\ bk.op # "advBulkCreate") => BulkContinues

C8_StopsAtFirstFailure ==
    /\ bk.pc = "thrown" /\ bk.coe = "false" /\ bk.op = "bulkUpdate"
    /\ bk.attempted = << 0, 1 >> /\ bk.failed = << 1 >>
    /\ Len(bk.items) = MaxItems

C8_AdvancedStopsByDefault ==
    /\ bk.pc = "thrown" /\ bk.op = "advBulkCreate" /\ bk.coe = "unset"
    /\ bk.attempted = << 0 >>
    /\ Len(bk.items) > 1

(***************************************************************************)
(* BulkOperations.batchInsert: one multi-row INSERT per chunk.  The        *)
(* columns are the keys of the first record; the statement is atomic.      *)
(***************************************************************************)
BatchChunkSize == 500

\* Object.keys(firstRecord) without the auto-increment fields.
BatchFieldNames(opts, first) ==
    {f \in FieldNames :
        /\ first[f] # Undef
        /\ ~(IsSchemaField(opts, f) /\ FieldOf(opts, f).autoIncrement)}

\* The values a prepared record contributes to the VALUES clause.
BatchValues(prepared, fieldNames) ==
    [f \in FieldNames |-> IF f \in fieldNames THEN prepared[f] ELSE Undef]

\* The rows of one statement, inserted in order; the first failure fails the
\* statement and leaves the table as it was.
RECURSIVE InsertAll(_, _, _, _, _)
InsertAll(opts, table, nid, rows, i) ==
    IF i > Len(rows) THEN QueryResult(TRUE, << >>, Len(rows), nid - 1, NoError, table, nid)
    ELSE LET one == ExecInsert(opts, table, nid, rows[i])
         IN IF one.success THEN InsertAll(opts, one.table, one.nextId, rows, i + 1)
            ELSE one

\* batchInsert(records, { skipValidation }) for a list that fits one chunk.
BatchInsert(opts, table, nid, records, skipValidation) ==
    LET fieldNames == BatchFieldNames(opts, records[1])
        prepared == [k \in 1..Len(records) |-> PrepareDataForInsert(opts, records[k])]
        invalid == {k \in 1..Len(records) : ~Validate(opts, prepared[k]).isValid}
        res == InsertAll(opts, table, nid,
                         [k \in 1..Len(records) |-> BatchValues(prepared[k], fieldNames)], 1)
        failed == [k \in 1..Len(records) |-> k - 1]
    IN IF Len(records) = 0
       THEN [created |-> 0, errors |-> << >>, table |-> table, nextId |-> nid]
       ELSE IF (~skipValidation /\ invalid # {}) \/ ~res.success
       THEN [created |-> 0, errors |-> failed, table |-> table, nextId |-> nid]
       ELSE [created |-> Len(records), errors |-> << >>,
             table |-> res.table, nextId |-> res.nextId]

(***************************************************************************)
(* AggregateOperations.count and AggregateOperations.percentile            *)
(***************************************************************************)
\* Math.ceil(a / b) for a >= 0 and b > 0.
Ceil(a, b) == (a + b - 1) \div b

\* count(options): buildCount, then `results[0]?.count || 0`.
Count(table, where) ==
    LET b == BuildCount(AddWhereConditions(NewQueryBuilder(TableName), 1, where))
        res == ExecSql(table, 0, b.sql, b.params)
    IN IF res.success /\ Len(res.results) > 0 THEN res.results[1] ELSE 0

\* Math.ceil((percentile / 100) * countResult)
Position(percentile, countResult) == Ceil(percentile * countResult, 100)

\* The value query of percentile: the field in ascending order, one row at
\* OFFSET position - 1.
ValueQuery(field, position, where) ==
    AddWhereConditions(
        OffsetBy(LimitTo(OrderBy(Select(NewQueryBuilder(TableName), << field >>),
                                 field, "ASC"), 1), position - 1),
        1, where)

\* `result.results[0]?.[field] || null`
ValueOrNull(rows, field) ==
    LET v == IF Len(rows) > 0 THEN rows[1][field] ELSE Undef
    IN IF Truthy(v) THEN v ELSE Null

(***************************************************************************)
(* Specification SpecPct: a table filled by batchInsert, with and without  *)
(* validation, and one caller of percentile("age", p, { where }).          *)
(***************************************************************************)
MaxBatch == 2

PctField == "age"
Percentiles == {0 - 1, 0, 50, 100, 101}
PctEmails == {Str("a@b.com", 7), Str("c@d.com", 7), Str("e@f.com", 7)}
PctAges == {Num(0), Num(MinAge), Num(MaxAge)}
PctRoles == {Str("admin", 5), Str("user", 4)}
PctRecords ==
    {[EmptyRecord EXCEPT !.email = e, !.age = a, !.role = r] :
        e \in PctEmails, a \in PctAges, r \in PctRoles}
PctBatches == UNION {[1..n -> PctRecords] : n \in 1..MaxBatch}
PctWheres == {EmptyRecord, [EmptyRecord EXCEPT !.role = Str("admin", 5)]}

PctIdle ==
    [pc |-> "idle", p |-> 0, where |-> EmptyRecord, count |-> 0,
     result |-> Undef, error |-> NotThrown]

InitPct ==
    /\ db = << >>
    /\ nextId = 1
    /\ pct = PctIdle
    /\ cr = Unused /\ up = Unused /\ lastWriter = Unused
    /\ fd = Unused /\ bk = Unused /\ qb = Unused
    /\ ops = Unused

notPct == <<cr, up, lastWriter, fd, bk, qb, ops>>

\* batchInsert of one chunk of records while no percentile call is running.
PctBatchInsert ==
    /\ pct.pc = "idle"
    /\ \E records \in PctBatches, skipValidation \in BOOLEAN :
          /\ Len(records) <= BatchChunkSize
          /\ Len(db) + Len(records) <= MaxRows
          /\ \E res \in {BatchInsert(DefaultOptions, db, nextId, records, skipValidation)} :
                db' = res.table /\ nextId' = res.nextId
    /\ UNCHANGED <<pct, notPct>>

\* percentile(field, p, options): the range check.
PercentileCall ==
    /\ pct.pc = "idle"
    /\ \E p \in Percentiles, where \in PctWheres :
          pct' = [PctIdle EXCEPT
                    !.pc = IF p < 0 \/ p > 100 THEN "thrown" ELSE "count",
                    !.p = p, !.where = where,
                    !.error = IF p < 0 \/ p > 100
                              THEN Thrown(Message("PercentileRange", "", {}, ""))
                              ELSE NotThrown]
    /\ UNCHANGED <<db, nextId, notPct>>

\* `await this.count(options)`; a count of 0 returns null.
PercentileCount ==
    /\ pct.pc = "count"
    /\ \E n \in {Count(db, pct.where)} :
          pct' = [pct EXCEPT !.pc = IF n = 0 THEN "done" ELSE "value",
                             !.count = n,
                             !.result = IF n = 0 THEN Null ELSE @]
    /\ UNCHANGED <<db, nextId, notPct>>

\* The value query and the returned value.
PercentileValue ==
    /\ pct.pc = "value"
    /\ \E rows \in {RunQuery(db, ValueQuery(PctField, Position(pct.p, pct.count),
                                            pct.where)).records} :
          pct' = [pct EXCEPT !.pc = "done", !.result = ValueOrNull(rows, PctField)]
    /\ UNCHANGED <<db, nextId, notPct>>

\* The caller takes the result or the error.
PercentileReturn ==
    /\ pct.pc \in {"done", "thrown"}
    /\ pct' = PctIdle
    /\ UNCHANGED <<db, nextId, notPct>>

NextPct ==
    \/ PctBatchInsert
    \/ PercentileCall
    \/ PercentileCount
    \/ PercentileValue
    \/ PercentileReturn

SpecPct == InitPct /\ [][NextPct]_vars

(***************************************************************************)
(* Claims about percentile (SpecPct)                                       *)
(***************************************************************************)
\* The rows the call's filter matches and the values of the field in them.
PctMatching ==
    {i \in 1..Len(db) : \A f \in FieldNames : pct.where[f] # Undef => db[i][f] = pct.where[f]}
PctValuesMatched == {db[i][PctField].n : i \in PctMatching}
Minimum(S) == CHOOSE x \in S : \A y \in S : x <= y
Maximum(S) == CHOOSE x \in S : \A y \in S : y <= x

\* What the boundary contract asks of a finished call.
PercentileBoundaries ==
    /\ pct.error = NotThrown
    /\ IF PctMatching = {} THEN pct.result = Null
       ELSE /\ pct.p = 0 => pct.result = Num(Minimum(PctValuesMatched))
            /\ pct.p = 100 => pct.result = Num(Maximum(PctValuesMatched))

\* C9: for any table contents, percentile(field, 0) returns the minimum value
\* of the field, percentile(field, 100) the maximum, and a call that matches
\* no row returns null without raising.
C9_PercentileBoundaries == pct.pc = "done" => PercentileBoundaries

\* C9, where it holds: the boundaries are right whenever the value to return
\* is not 0.
C9_NonZeroBoundaries ==
    (/\ pct.pc = "done"
     /\ (pct.p = 0 /\ PctMatching # {} => Minimum(PctValuesMatched) # 0)
     /\ (pct.p = 100 /\ PctMatching # {} => Maximum(PctValuesMatched) # 0))
        => PercentileBoundaries

\* C9, the failing case reached: the minimum of the matched rows is 0 and
\* percentile(field, 0) returned null.
C9_ZeroMinimumLost ==
    /\ pct.pc = "done" /\ pct.p = 0
    /\ PctMatching # {} /\ Minimum(PctValuesMatched) = 0
    /\ pct.result = Null

\* C9, the boundaries reached on a table of two different non-zero values.
C9_BoundariesReached ==
    /\ pct.pc = "done" /\ pct.p = 100 /\ Cardinality(PctValuesMatched) = 2
    /\ 0 \notin PctValuesMatched
    /\ pct.result = Num(Maximum(PctValuesMatched))

(***************************************************************************)
(* Specification SpecQB: one QueryBuilder, any sequence of condition calls *)
(* on it, and the four compilers applied to the state it has reached.      *)
(***************************************************************************)
MaxConds == 3
MaxBuilds == 2

QbField == "age"
\* where(field, operator, value); with BETWEEN the call records no bounds.
QbWhereArgs ==
    {<< "=", Num(1) >>, << "=", Num(2) >>, << ">", Num(1) >>, << "BETWEEN", Undef >>}
QbInLists == {<< >>, << Num(1) >>, << Num(1), Num(2) >>, << Num(2), Num(1) >>}
QbNotInLists == {<< >>, << Num(2) >>}
QbRanges == {<< Num(1), Num(2) >>}
QbHavingArgs == {<< ">", Num(1) >>, << "<", Num(2) >>}
QbSetMaps ==
    {EmptyRecord,
     [EmptyRecord EXCEPT !.age = Num(7)],
     [EmptyRecord EXCEPT !.email = Str("a@b.com", 7), !.age = Num(7)]}

NoOutput ==
    [kind |-> "none", ok |-> TRUE,
     sql |-> Sql("", "", << >>, << >>, << >>, << >>, << >>, Undef, Undef),
     params |-> << >>, data |-> EmptyRecord]

Output(kind, ok, sql, params, data) ==
    [kind |-> kind, ok |-> ok, sql |-> sql, params |-> params, data |-> data]

InitQB ==
    /\ qb = [q |-> NewQueryBuilder(TableName), out |-> NoOutput, builds |-> 0]
    /\ db = << >> /\ nextId = 1
    /\ cr = Unused /\ up = Unused /\ lastWriter = Unused
    /\ fd = Unused /\ bk = Unused /\ pct = Unused
    /\ ops = Unused

notQB == <<db, nextId, cr, up, lastWriter, fd, bk, pct, ops>>

CondsOf(q) == Len(q.where) + Len(q.having)

QbWhere ==
    /\ CondsOf(qb.q) < MaxConds
    /\ \E a \in QbWhereArgs :
          qb' = [q |-> Where(qb.q, QbField, a[1], a[2]), out |-> NoOutput, builds |-> 0]
    /\ UNCHANGED notQB

QbWhereIn ==
    /\ CondsOf(qb.q) < MaxConds
    /\ \E values \in QbInLists :
          qb' = [q |-> WhereIn(qb.q, QbField, values), out |-> NoOutput, builds |-> 0]
    /\ UNCHANGED notQB

QbWhereNotIn ==
    /\ CondsOf(qb.q) < MaxConds
    /\ \E values \in QbNotInLists :
          qb' = [q |-> WhereNotIn(qb.q, QbField, values), out |-> NoOutput, builds |-> 0]
    /\ UNCHANGED notQB

QbWhereBetween ==
    /\ CondsOf(qb.q) < MaxConds
    /\ \E r \in QbRanges :
          qb' = [q |-> WhereBetween(qb.q, QbField, r[1], r[2]), out |-> NoOutput, builds |-> 0]
    /\ UNCHANGED notQB

QbWhereNull ==
    /\ CondsOf(qb.q) < MaxConds
    /\ qb' = [q |-> WhereNull(qb.q, "deleted_at"), out |-> NoOutput, builds |-> 0]
    /\ UNCHANGED notQB

QbHaving ==
    /\ CondsOf(qb.q) < MaxConds
    /\ \E a \in QbHavingArgs :
          qb' = [q |-> Having(qb.q, QbField, a[1], a[2]), out |-> NoOutput, builds |-> 0]
    /\ UNCHANGED notQB

\* A build() that keeps its parameter list between calls.
QbBuildAccumulating ==
    /\ qb.builds < MaxBuilds
    /\ \E b \in {Build(qb.q)} :
          qb' = [qb EXCEPT !.builds = @ + 1,
                           !.out = Output("build", TRUE, b.sql,
                                          (IF qb.builds > 0 THEN qb.out.params ELSE << >>)
                                              \o b.params,
                                          EmptyRecord)]
    /\ UNCHANGED notQB

\* build(), up to MaxBuilds times in a row on the builder as it stands.
QbBuild ==
    /\ qb.builds < MaxBuilds
    /\ \E b \in {Build(qb.q)} :
          qb' = [qb EXCEPT !.builds = @ + 1,
                           !.out = Output("build", TRUE, b.sql, b.params, EmptyRecord)]
    /\ UNCHANGED notQB

QbBuildCount ==
    /\ \E b \in {BuildCount(qb.q)} :
          qb' = [qb EXCEPT !.builds = 0, !.out = Output("buildCount", TRUE, b.sql, b.params, EmptyRecord)]
    /\ UNCHANGED notQB

QbBuildUpdate ==
    /\ \E data \in QbSetMaps :
          \E b \in {BuildUpdate(qb.q, KeyOrder, data)} :
             qb' = [qb EXCEPT !.builds = 0, !.out = Output("buildUpdate", b.ok, b.sql, b.params, data)]
    /\ UNCHANGED notQB

QbBuildDelete ==
    /\ \E b \in {BuildDelete(qb.q)} :
          qb' = [qb EXCEPT !.builds = 0, !.out = Output("buildDelete", TRUE, b.sql, b.params, EmptyRecord)]
    /\ UNCHANGED notQB

NextQB ==
    \/ QbWhere
    \/ QbWhereIn
    \/ QbWhereNotIn
    \/ QbWhereBetween
    \/ QbWhereNull
    \/ QbHaving
    \/ QbBuild
    \/ QbBuildCount
    \/ QbBuildUpdate
    \/ QbBuildDelete

SpecQB == InitQB /\ [][NextQB]_vars

(***************************************************************************)
(* Claims about the compilers (SpecQB)                                     *)
(***************************************************************************)
\* The j-th value a recorded condition carries.
ArgOf(c, j) == IF c.hasValues THEN c.values[j] ELSE c.value

\* The conditions a compiler puts in its statement, in clause order.
ClauseConditions(kind, q) ==
    IF kind \in {"build", "buildCount"} THEN q.where \o q.having ELSE q.where

\* The placeholders that come before condition i of the statement.
PlaceholdersBefore(sql, i) ==
    Len(sql.set) + PlaceholdersIn(SubSeq(sql.where \o sql.having, 1, i - 1), 1)

\* The parameters are the values of the statement's placeholders read from
\* left to right: the SET values, then each condition's own values.
InPlaceholderOrder(out, q) ==
    LET texts == out.sql.where \o out.sql.having
        conds == ClauseConditions(out.kind, q)
    IN /\ Len(texts) = Len(conds)
       /\ \A k \in 1..Len(out.sql.set) : out.params[k] = out.data[out.sql.set[k]]
       /\ \A i \in 1..Len(texts) :
             \A j \in 1..texts[i].placeholders :
                /\ PlaceholdersBefore(out.sql, i) + j <= Len(out.params)
                /\ out.params[PlaceholdersBefore(out.sql, i) + j] = ArgOf(conds[i], j)

\* C10: whatever sequence of where, whereIn, whereNotIn, whereBetween,
\* whereNull and having calls built the state, each of build, buildCount,
\* buildUpdate and buildDelete returns SQL whose number of placeholders equals
\* the number of parameters, the parameters being in the left-to-right order
\* of their placeholders.
C10_PlaceholderParity ==
    (qb.out.kind # "none" /\ qb.out.ok) =>
        /\ PlaceholderCount(qb.out.sql) = Len(qb.out.params)
        /\ InPlaceholderOrder(qb.out, qb.q)

\* C10 reached: an UPDATE of two columns compiled from a builder holding a
\* two-value IN list, an IS NULL test and an empty NOT IN list.
C10_Witness ==
    /\ qb.out.kind = "buildUpdate" /\ qb.out.ok
    /\ Len(qb.out.sql.set) = 2
    /\ Len(qb.q.where) = MaxConds
    /\ \E i \in 1..Len(qb.q.where) :
          qb.q.where[i].operator = "IN" /\ Len(qb.q.where[i].values) = 2
    /\ \E i \in 1..Len(qb.q.where) : qb.q.where[i].operator = "IS NULL"
    /\ \E i \in 1..Len(qb.q.where) :
          qb.q.where[i].operator = "NOT IN" /\ Len(qb.q.where[i].values) = 0
    /\ Len(qb.out.params) = 4

(***************************************************************************)
(* Claims about degenerate conditions (SpecQB)                             *)
(***************************************************************************)
\* A table to run the compiled statements against.
QbTable ==
    << StoredRow([EmptyRecord EXCEPT !.email = Str("a@b.com", 7), !.age = Num(1)], 1),
       StoredRow([EmptyRecord EXCEPT !.email = Str("c@d.com", 7), !.age = Num(2)], 2) >>

\* An IN or NOT IN with an empty list, or a BETWEEN without exactly two bounds.
Degenerate(c) ==
    \/ c.operator \in {"IN", "NOT IN"} /\ ~(c.hasValues /\ Len(c.values) > 0)
    \/ c.operator = "BETWEEN" /\ ~(c.hasValues /\ Len(c.values) = 2)

\* The parameters a recorded condition is entitled to.
ArgCount(c) ==
    CASE Degenerate(c) -> 0
      [] c.operator \in {"IS NULL", "IS NOT NULL"} -> 0
      [] c.hasValues -> Len(c.values)
      [] OTHER -> 1

RECURSIVE ArgCountAll(_, _)
ArgCountAll(conds, i) ==
    IF i > Len(conds) THEN 0 ELSE ArgCount(conds[i]) + ArgCountAll(conds, i + 1)

\* The statement, run against QbTable, touches no row.
MatchesNoRow(out) ==
    LET res == ExecSql(QbTable, 3, out.sql, out.params)
    IN /\ res.success
       /\ res.table = QbTable
       /\ CASE out.kind = "build" -> res.results = << >>
            [] out.kind = "buildCount" -> res.results = << 0 >>
            [] OTHER -> res.changes = 0

\* C11: an IN or NOT IN with an empty list and a BETWEEN without exactly two
\* bounds compile to the always-false predicate 1=0 and add no parameter, the
\* compiler does not raise on them, and the statement matches zero rows.
C11_EmptyListsFailClosed ==
    qb.out.kind # "none" =>
        LET conds == ClauseConditions(qb.out.kind, qb.q)
            texts == qb.out.sql.where \o qb.out.sql.having
        IN /\ ~qb.out.ok => \A f \in FieldNames : qb.out.data[f] = Undef
           /\ qb.out.ok =>
                /\ Len(texts) = Len(conds)
                /\ \A i \in 1..Len(conds) : Degenerate(conds[i]) => texts[i] = AlwaysFalse
                /\ Len(qb.out.params) = Len(qb.out.sql.set) + ArgCountAll(conds, 1)
                /\ (\E i \in 1..Len(conds) : Degenerate(conds[i])) => MatchesNoRow(qb.out)

\* C11 reached: a DELETE compiled from whereIn([]), whereNotIn([]) and a
\* BETWEEN without bounds; it carries no parameter and removes no row.
C11_Witness ==
    /\ qb.out.kind = "buildDelete"
    /\ Len(qb.q.where) = 3
    /\ \E i \in 1..3 : qb.q.where[i].operator = "IN" /\ Degenerate(qb.q.where[i])
    /\ \E i \in 1..3 : qb.q.where[i].operator = "NOT IN" /\ Degenerate(qb.q.where[i])
    /\ \E i \in 1..3 : qb.q.where[i].operator = "BETWEEN" /\ Degenerate(qb.q.where[i])
    /\ qb.out.params = << >>
    /\ \A i \in 1..3 : qb.out.sql.where[i] = AlwaysFalse

(***************************************************************************)
(* CrudOperations.deleteById                                               *)
(***************************************************************************)
\* delete({ id }): the mapping has the one entry, whatever the argument is.
WhereId(id) == [EmptyRecord EXCEPT !.id = id]

DeleteById(opts, table, id) == Delete(opts, table, WhereId(id), "none")

(***************************************************************************)
(* Specification SpecWrite: one caller of update, delete and deleteById on  *)
(* the default schema (timestamps enabled), call after call.               *)
(***************************************************************************)
\* The tables the calls start from: the records of up to two create calls.
WriteRecord(email, role) ==
    [EmptyRecord EXCEPT !.email = Str(email, 7), !.age = Num(MinAge), !.role = role]

RECURSIVE CreatedTable(_, _, _)
CreatedTable(table, nid, inputs) ==
    IF Len(inputs) = 0 THEN table
    ELSE LET run == CreateRun(DefaultOptions, NoHooks, table, nid, Head(inputs), "none")
         IN CreatedTable(run.table, run.nextId, Tail(inputs))

WriteTables ==
    {CreatedTable(<< >>, 1, inputs) :
        inputs \in {<< >>,
                    << WriteRecord("a@b.com", Undef) >>,
                    << WriteRecord("a@b.com", Str("admin", 5)) >>,
                    << WriteRecord("a@b.com", Undef), WriteRecord("c@d.com", Str("admin", 5)) >>,
                    << WriteRecord("a@b.com", Str("admin", 5)),
                       WriteRecord("c@d.com", Str("admin", 5)) >>}}

\* An earlier reading of the clock, as a caller may send it back.
Stale == ToISOString(DateObj(0))

\* Update payloads: one field, a field with the id and created_at of a record
\* read earlier, a caller-supplied updated_at, an out-of-range value, nothing.
WritePayloads ==
    {[EmptyRecord EXCEPT !.role = Str("x", 1)],
     [EmptyRecord EXCEPT !.id = Num(1), !.role = Str("x", 1), !.created_at = Stale],
     [EmptyRecord EXCEPT !.age = Num(MaxAge), !.updated_at = Stale],
     [EmptyRecord EXCEPT !.age = Num(MaxAge + 1)],
     EmptyRecord}

\* Arguments of deleteById and values of an id entry.
WriteIds == {Num(1), Num(2), Num(3), Null, Undef}

WriteWheres ==
    {WhereId(i) : i \in WriteIds}
        \cup {[EmptyRecord EXCEPT !.role = Str("admin", 5)],
              [EmptyRecord EXCEPT !.id = Num(1), !.role = Str("admin", 5)]}

WriteIdle ==
    [kind |-> "idle", data |-> EmptyRecord, where |-> EmptyRecord, before |-> << >>,
     error |-> NotThrown, issued |-> << >>, params |-> << >>, changes |-> 0]

InitWrite ==
    /\ db \in WriteTables
    /\ nextId = Len(db) + 1
    /\ ops = WriteIdle
    /\ cr = Unused /\ up = Unused /\ lastWriter = Unused
    /\ fd = Unused /\ bk = Unused /\ pct = Unused /\ qb = Unused

notWrite == <<cr, up, lastWriter, fd, bk, pct, qb>>

WriteUpdate ==
    /\ \E data \in WritePayloads, where \in WriteWheres :
          \E res \in {Update(DefaultOptions, db, data, where)} :
             /\ db' = res.table
             /\ ops' = [kind |-> "update", data |-> data, where |-> where, before |-> db,
                        error |-> res.error, issued |-> res.issued, params |-> res.params,
                        changes |-> res.changes]
    /\ UNCHANGED <<nextId, notWrite>>

WriteDelete ==
    /\ \E where \in WriteWheres :
          \E res \in {Delete(DefaultOptions, db, where, "none")} :
             /\ db' = res.table
             /\ ops' = [WriteIdle EXCEPT !.kind = "delete", !.where = where, !.before = db,
                                         !.error = res.error, !.issued = res.issued,
                                         !.changes = res.changes]
    /\ UNCHANGED <<nextId, notWrite>>

WriteDeleteById ==
    /\ \E id \in WriteIds :
          \E res \in {DeleteById(DefaultOptions, db, id)} :
             /\ db' = res.table
             /\ ops' = [WriteIdle EXCEPT !.kind = "deleteById", !.where = WhereId(id),
                                         !.before = db, !.error = res.error,
                                         !.issued = res.issued, !.changes = res.changes]
    /\ UNCHANGED <<nextId, notWrite>>

NextWrite ==
    \/ WriteUpdate
    \/ WriteDelete
    \/ WriteDeleteById

SpecWrite == InitWrite /\ [][NextWrite]_vars

(***************************************************************************)
(* Claims about update, delete and deleteById (SpecWrite)                  *)
(***************************************************************************)
RECURSIVE Filter(_, _, _)
Filter(seq, i, keep) ==
    IF i > Len(seq) THEN << >>
    ELSE (IF seq[i] \in keep THEN << seq[i] >> ELSE << >>) \o Filter(seq, i + 1, keep)

\* The SET list the claim describes: the payload's fields without id and
\* created_at, then updated_at.
ExpectedSet(data) ==
    Filter(KeyOrder, 1, {f \in FieldNames \ {"id", "created_at", "updated_at"} :
                            data[f] # Undef})
        \o << "updated_at" >>

ExpectedSetValues(data) ==
    [k \in 1..Len(ExpectedSet(data)) |->
        IF ExpectedSet(data)[k] = "updated_at" THEN ToISOString(Clock)
        ELSE data[ExpectedSet(data)[k]]]

\* The values of the where mapping that are compared with `=`.
WhereValues(where) ==
    LET keys == Filter(KeyOrder, 1, {f \in FieldNames : where[f] \notin {Undef, Null}})
    IN [k \in 1..Len(keys) |-> where[keys[k]]]

\* C12: with timestamps enabled, update(data, where) issues one UPDATE whose
\* SET list is the payload's fields without id and created_at plus updated_at
\* set to the current timestamp, with the SET values followed by the where
\* values as parameters.
C12_UpdateStatement ==
    (ops.kind = "update" /\ ops.error = NotThrown) =>
        /\ Len(ops.issued) = 1
        /\ ops.issued[1].kind = "UPDATE"
        /\ ops.issued[1].from = TableName
        /\ ops.issued[1].set = ExpectedSet(ops.data)
        /\ ops.params = ExpectedSetValues(ops.data) \o WhereValues(ops.where)

\* C12 reached: update({role: "x", id: 1, created_at: ...}, {id: 1}) compiled
\* to UPDATE t SET role = ?, updated_at = ? WHERE id = ? with ["x", <ts>, 1].
C12_Witness ==
    /\ ops.kind = "update" /\ ops.error = NotThrown
    /\ ops.data.id = Num(1) /\ ops.data.created_at = Stale
    /\ ops.where = WhereId(Num(1))
    /\ ops.issued[1].set = << "role", "updated_at" >>
    /\ ops.issued[1].where = << Compiled("id", "=", 1) >>
    /\ ops.params = << Str("x", 1), ToISOString(Clock), Num(1) >>
    /\ ops.changes = 1

(***************************************************************************)
(* Claims about the reach of update, delete and deleteById (SpecWrite)     *)
(***************************************************************************)
\* The stored record with a given id, in a table.
HasId(table, id) == \E i \in 1..Len(table) : table[i].id = id
RowOf(table, id) == table[CHOOSE i \in 1..Len(table) : table[i].id = id]
IdsOf(table) == {table[i].id : i \in 1..Len(table)}

\* The records a call changed or removed.
Affected ==
    {id \in IdsOf(ops.before) : ~HasId(db, id) \/ RowOf(db, id) # RowOf(ops.before, id)}

\* A record satisfies every entry of a where mapping; a key the mapping does
\* not hold constrains nothing.
Satisfies(row, where) == \A f \in FieldNames : where[f] # Undef => row[f] = where[f]

\* update and delete reach only the records that satisfy the mapping.
WhereBoundsWrites ==
    ops.kind \in {"update", "delete"} =>
        \A id \in Affected : Satisfies(RowOf(ops.before, id), ops.where)

\* deleteById(id) removes nothing but the record whose id is the argument.
DeleteByIdBounded ==
    ops.kind = "deleteById" =>
        /\ \A id \in Affected : id = ops.where.id
        /\ Cardinality(Affected) <= 1

\* C20: delete(where) and update(data, where) affect only records that
\* satisfy every entry of the where mapping, and deleteById(id) removes at
\* most the one record whose id equals the argument, whatever the argument,
\* leaving every other record stored.
C20_WritesStayInsideWhere == WhereBoundsWrites /\ DeleteByIdBounded

\* C20, where it holds: every reach is bounded when the id the caller passes
\* is not undefined.
C20_DefinedIdsBounded ==
    ops.where.id # Undef \/ ops.kind # "deleteById" => WhereBoundsWrites /\ DeleteByIdBounded

\* C20, the failing case reached: deleteById(undefined) on a table of two
\* records removed both.
C20_DeleteByIdUndefinedRemovesAll ==
    /\ ops.kind = "deleteById" /\ ops.where.id = Undef
    /\ Len(ops.before) = 2 /\ db = << >> /\ ops.changes = 2

\* C20, the bounded case reached: deleteById(1) removed record 1 of two.
C20_DeleteByIdRemovesOne ==
    /\ ops.kind = "deleteById" /\ ops.where.id = Num(1)
    /\ Len(ops.before) = 2 /\ Affected = {Num(1)} /\ Len(db) = 1

(***************************************************************************)
(* Specification SpecCine: two callers of createIfNotExists(data,          *)
(* ["email"]) with the same key on the default schema, statement by        *)
(* statement.  `ops` holds each caller's position.                         *)
(***************************************************************************)
CineResult(record, created) == [record |-> record, created |-> created]
NoCineResult == CineResult(EmptyRecord, FALSE)

CineIdle ==
    [pc |-> "idle", fault |-> "none", existing |-> EmptyRecord, lastRowId |-> 0,
     createError |-> NotThrown, retried |-> FALSE, issued |-> << >>,
     error |-> NotThrown, result |-> NoCineResult]

CineWhere(p) == WhereFromUnique(CreatePayload(p), {"email"})

InitCine ==
    /\ db \in {<< >>, << ExistingRow(Key) >>, << ExistingRow(OtherKey) >>}
    /\ nextId = Len(db) + 1
    /\ ops = [p \in Callers |-> CineIdle]
    /\ cr = Unused /\ up = Unused /\ lastWriter = Unused
    /\ fd = Unused /\ bk = Unused /\ pct = Unused /\ qb = Unused

notCine == <<cr, up, lastWriter, fd, bk, pct, qb>>

CineCall(p) ==
    /\ ops[p].pc = "idle"
    /\ \E fault \in UpsertFaults :
          ops' = [ops EXCEPT ![p] = [CineIdle EXCEPT !.pc = "find", !.fault = fault]]
    /\ UNCHANGED <<db, nextId, notCine>>

\* const existingRecord = await this.findOne({ where: whereConditions }) and
\* the return of the record it found.
CineFind(p) ==
    /\ ops[p].pc = "find"
    /\ \E q \in {RunQuery(db, FindOneQuery(DefaultOptions, CineWhere(p)))} :
          ops' = [ops EXCEPT
                    ![p].pc = IF FirstOrNull(q.records) = EmptyRecord THEN "create"
                              ELSE "done",
                    ![p].existing = FirstOrNull(q.records),
                    ![p].result = IF FirstOrNull(q.records) = EmptyRecord THEN @
                                  ELSE CineResult(FirstOrNull(q.records), FALSE),
                    ![p].issued = Append(@, q.sql.kind)]
    /\ UNCHANGED <<db, nextId, notCine>>

\* A catch block that rethrows whatever create threw.
CineCreateNoRetry(p) ==
    /\ ops[p].pc = "create"
    /\ \E prepared \in {PrepareDataForInsert(DefaultOptions, CreatePayload(p))} :
       \E res \in {InsertResult(DefaultOptions, db, nextId, prepared, ops[p].fault)} :
       \E thrown \in {IF ~res.success
                      THEN Thrown(ExecuteQueryError(DefaultOptions, res.error,
                                                    InsertSql(TableName, prepared)))
                      ELSE Thrown(Message("FailedToCreate", "", {}, ""))} :
          /\ ops' = [ops EXCEPT
                       ![p].pc = IF res.success /\ res.lastRowId # 0 THEN "refetch"
                                 ELSE "failed",
                       ![p].createError = IF res.success /\ res.lastRowId # 0 THEN @
                                          ELSE thrown,
                       ![p].error = IF res.success /\ res.lastRowId # 0 THEN @ ELSE thrown,
                       ![p].lastRowId = res.lastRowId,
                       ![p].issued = Append(@, "INSERT")]
          /\ db' = res.table
          /\ nextId' = res.nextId
    /\ UNCHANGED notCine

\* try { const newRecord = await this.create(data) } up to create's INSERT,
\* and the catch block's test of the message.
CineCreate(p) ==
    /\ ops[p].pc = "create"
    /\ \E prepared \in {PrepareDataForInsert(DefaultOptions, CreatePayload(p))} :
       \E res \in {InsertResult(DefaultOptions, db, nextId, prepared, ops[p].fault)} :
       \E thrown \in {IF ~res.success
                      THEN Thrown(ExecuteQueryError(DefaultOptions, res.error,
                                                    InsertSql(TableName, prepared)))
                      ELSE Thrown(Message("FailedToCreate", "", {}, ""))} :
          IF ~Validate(DefaultOptions, prepared).isValid
          THEN /\ ops' = [ops EXCEPT
                            ![p].pc = "failed",
                            ![p].error = ValidationFailed(
                                            Validate(DefaultOptions, prepared).errors)]
               /\ UNCHANGED <<db, nextId>>
          ELSE /\ ops' = [ops EXCEPT
                            ![p].pc = IF res.success /\ res.lastRowId # 0 THEN "refetch"
                                      ELSE IF MentionsDuplicate(thrown) THEN "refind"
                                      ELSE "failed",
                            ![p].createError = IF res.success /\ res.lastRowId # 0 THEN @
                                               ELSE thrown,
                            ![p].error = IF res.success /\ res.lastRowId # 0 THEN @
                                         ELSE IF MentionsDuplicate(thrown) THEN @
                                         ELSE thrown,
                            ![p].lastRowId = res.lastRowId,
                            ![p].issued = Append(@, "INSERT")]
               /\ db' = res.table
               /\ nextId' = res.nextId
    /\ UNCHANGED notCine

\* create's re-fetch of the inserted row, and the return of the new record.
CineRefetch(p) ==
    /\ ops[p].pc = "refetch"
    /\ \E q \in {RunQuery(db, FindByIdQuery(DefaultOptions, Num(ops[p].lastRowId)))} :
       \E thrown \in {Thrown(Message("FailedToRetrieve", "", {}, ""))} :
          ops' = [ops EXCEPT
                    ![p].pc = IF FirstOrNull(q.records) # EmptyRecord THEN "done"
                              ELSE IF MentionsDuplicate(thrown) THEN "refind" ELSE "failed",
                    ![p].createError = IF FirstOrNull(q.records) # EmptyRecord THEN @
                                       ELSE thrown,
                    ![p].error = IF FirstOrNull(q.records) # EmptyRecord THEN @ ELSE thrown,
                    ![p].result = IF FirstOrNull(q.records) # EmptyRecord
                                  THEN CineResult(FirstOrNull(q.records), TRUE) ELSE @,
                    ![p].issued = Append(@, q.sql.kind)]
    /\ UNCHANGED <<db, nextId, notCine>>

\* The catch block: the second findOne, the return of what it found, and
\* `throw error` when it found nothing.
CineRefind(p) ==
    /\ ops[p].pc = "refind"
    /\ \E q \in {RunQuery(db, FindOneQuery(DefaultOptions, CineWhere(p)))} :
          ops' = [ops EXCEPT
                    ![p].pc = IF FirstOrNull(q.records) = EmptyRecord THEN "failed"
                              ELSE "done",
                    ![p].retried = TRUE,
                    ![p].existing = FirstOrNull(q.records),
                    ![p].error = IF FirstOrNull(q.records) = EmptyRecord
                                 THEN ops[p].createError ELSE @,
                    ![p].result = IF FirstOrNull(q.records) = EmptyRecord THEN @
                                  ELSE CineResult(FirstOrNull(q.records), FALSE),
                    ![p].issued = Append(@, q.sql.kind)]
    /\ UNCHANGED <<db, nextId, notCine>>

NextCine ==
    \E p \in Callers :
        \/ CineCall(p)
        \/ CineFind(p)
        \/ CineCreate(p)
        \/ CineRefetch(p)
        \/ CineRefind(p)

SpecCine == InitCine /\ [][NextCine]_vars

(***************************************************************************)
(* Claims about createIfNotExists (SpecCine)                               *)
(***************************************************************************)
KeyRows == {i \in 1..Len(db) : db[i].email = Key}

\* The INSERT of the call ran into the key another caller had stored.
LostTheRace(p) ==
    /\ ops[p].fault = "none"
    /\ ops[p].createError.cat = "DuplicateEntry"

\* C13: createIfNotExists is read-only on conflict: when a record with the
\* unique-field values exists, found by the first lookup or inserted by
\* another caller between the lookup and the INSERT, the call issues no
\* UPDATE, returns the stored record with created false, and raises no
\* duplicate-entry error.
C13_ReadOnlyOnConflict ==
    \A p \in Callers :
        /\ \A k \in 1..Len(ops[p].issued) : ops[p].issued[k] # "UPDATE"
        /\ (ops[p].pc = "done" /\ ~ops[p].result.created) =>
              /\ ops[p].error = NotThrown
              /\ \E i \in KeyRows : db[i] = ops[p].result.record
              /\ \A k \in 1..Len(ops[p].issued) : ops[p].issued[k] \in {"SELECT", "INSERT"}
        /\ (ops[p].pc = "done" /\ ops[p].existing # EmptyRecord) => ~ops[p].result.created
        /\ LostTheRace(p) => ops[p].pc \in {"refind", "done"}
        /\ (LostTheRace(p) /\ ops[p].pc = "done") =>
              ~ops[p].result.created /\ ops[p].retried
        /\ Cardinality(KeyRows) <= 1

\* C13 reached: caller b looked up the key, found nothing, lost the INSERT to
\* caller a and returned a's record with created false; a reported created.
C13_Witness ==
    /\ ops["a"].pc = "done" /\ ops["a"].result.created
    /\ ops["b"].pc = "done" /\ ~ops["b"].result.created
    /\ LostTheRace("b") /\ ops["b"].retried
    /\ ops["b"].issued = << "SELECT", "INSERT", "SELECT" >>
    /\ ops["b"].result.record = ops["a"].result.record
    /\ Cardinality(KeyRows) = 1

(***************************************************************************)
(* CrudOperations.findAndCountAll                                          *)
(***************************************************************************)
DefaultPerPage == 20

PaginatedResult(data, total, page, perPage, totalPages) ==
    [data |-> data, total |-> total, page |-> page, perPage |-> perPage,
     totalPages |-> totalPages, hasNext |-> page < totalPages, hasPrev |-> page > 1]

\* A pagination that reads page n at offset n * perPage.
FindAndCountAllOffByOne(opts, table, where, pageArg, perPageArg) ==
    LET page == IF pageArg # 0 THEN pageArg ELSE 1
        perPage == IF perPageArg # 0 THEN perPageArg ELSE DefaultPerPage
        c == BuildCount(BuildQueryFromOptions(opts, FindOptions(where, 0, 0)))
        total == ExecSql(table, 0, c.sql, c.params).results[1]
        q == RunQuery(table, BuildQueryFromOptions(opts,
                                 FindOptions(where, perPage, page * perPage)))
    IN PaginatedResult(q.records, total, page, perPage, Ceil(total, perPage))

\* findAndCountAll({ where, page, perPage }); an argument of 0 is one the
\* caller left out.
FindAndCountAll(opts, table, where, pageArg, perPageArg) ==
    LET page == IF pageArg # 0 THEN pageArg ELSE 1
        perPage == IF perPageArg # 0 THEN perPageArg ELSE DefaultPerPage
        c == BuildCount(BuildQueryFromOptions(opts, FindOptions(where, 0, 0)))
        counted == ExecSql(table, 0, c.sql, c.params).results
        total == IF Len(counted) > 0 THEN counted[1] ELSE 0
        q == RunQuery(table, BuildQueryFromOptions(opts,
                                 FindOptions(where, perPage, (page - 1) * perPage)))
    IN PaginatedResult(q.records, total, page, perPage, Ceil(total, perPage))

(***************************************************************************)
(* Specification SpecPage: one caller creating records and reading them    *)
(* page by page on the default schema.                                     *)
(***************************************************************************)
MaxPageRows == 3
MaxPage == 3
MaxPerPage == 2

PageWheres == {EmptyRecord, [EmptyRecord EXCEPT !.role = Str("admin", 5)]}

PageIdle ==
    [kind |-> "idle", where |-> EmptyRecord, pageArg |-> 0, perPageArg |-> 0,
     result |-> PaginatedResult(<< >>, 0, 0, 0, 0)]

InitPage ==
    /\ db = << >>
    /\ nextId = 1
    /\ ops = PageIdle
    /\ cr = Unused /\ up = Unused /\ lastWriter = Unused
    /\ fd = Unused /\ bk = Unused /\ pct = Unused /\ qb = Unused

notPage == <<cr, up, lastWriter, fd, bk, pct, qb>>

PageCreate ==
    /\ Len(db) < MaxPageRows
    /\ \E role \in {Undef, Str("admin", 5)} :
       \E run \in {CreateRun(DefaultOptions, NoHooks, db, nextId,
                             [EmptyRecord EXCEPT !.email = ItemEmail(nextId),
                                                 !.age = Num(MinAge), !.role = role],
                             "none")} :
          /\ db' = run.table
          /\ nextId' = run.nextId
          /\ ops' = [PageIdle EXCEPT !.kind = "create"]
    /\ UNCHANGED notPage

PageCall ==
    /\ \E where \in PageWheres, pageArg \in 0..MaxPage, perPageArg \in 0..MaxPerPage :
       \E res \in {FindAndCountAll(DefaultOptions, db, where, pageArg, perPageArg)} :
          ops' = [kind |-> "findAndCountAll", where |-> where, pageArg |-> pageArg,
                  perPageArg |-> perPageArg, result |-> res]
    /\ UNCHANGED <<db, nextId, notPage>>

NextPage ==
    \/ PageCreate
    \/ PageCall

SpecPage == InitPage /\ [][NextPage]_vars

(***************************************************************************)
(* Claims about findAndCountAll (SpecPage)                                 *)
(***************************************************************************)
\* The stored records that match the filter, in stored order.
RECURSIVE MatchingFrom(_, _)
MatchingFrom(i, where) ==
    IF i > Len(db) THEN << >>
    ELSE (IF \A f \in FieldNames : where[f] # Undef => db[i][f] = where[f]
          THEN << db[i] >> ELSE << >>) \o MatchingFrom(i + 1, where)

\* At most `n` elements of a sequence from the zero-based offset `from`.
Window(seq, from, n) ==
    [k \in 1..(IF Len(seq) - from < 0 THEN 0 ELSE IF Len(seq) - from < n
               THEN Len(seq) - from ELSE n) |-> seq[from + k]]

\* C14: findAndCountAll({where, page, perPage}) returns total equal to the
\* number of records matching the filter, data holding at most perPage
\* records starting at offset (page - 1) * perPage of the matching records,
\* totalPages equal to ceil(total / perPage), hasNext exactly when
\* page < totalPages and hasPrev exactly when page > 1.
C14_Pagination ==
    (ops.kind = "findAndCountAll" /\ ops.pageArg >= 1 /\ ops.perPageArg >= 1) =>
        LET r == ops.result
            matching == MatchingFrom(1, ops.where)
        IN /\ r.page = ops.pageArg /\ r.perPage = ops.perPageArg
           /\ r.total = Len(matching)
           /\ Len(r.data) <= r.perPage
           /\ r.data = Window(matching, (r.page - 1) * r.perPage, r.perPage)
           /\ r.totalPages * r.perPage >= r.total
           /\ (r.totalPages - 1) * r.perPage < r.total
           /\ r.hasNext <=> r.page < r.totalPages
           /\ r.hasPrev <=> r.page > 1

\* C14 reached: page 2 of three records read two at a time holds the third
\* record, of two pages, with a previous page and no next one.
C14_Witness ==
    /\ ops.kind = "findAndCountAll" /\ ops.pageArg = 2 /\ ops.perPageArg = 2
    /\ ops.where = EmptyRecord /\ Len(db) = 3
    /\ ops.result.total = 3 /\ ops.result.totalPages = 2
    /\ ops.result.data = << db[3] >>
    /\ ops.result.hasPrev /\ ~ops.result.hasNext

ExcerptLimit == 200

\* `sql.length > 200 ? sql.substring(0, 200) + '...' : sql`: the characters
\* of the statement a message quotes.
SqlExcerpt(len) == IF len > ExcerptLimit THEN ExcerptLimit ELSE len

\* The categories whose message quotes the statement.
QuotesSql(msg) == msg.cat \in {"InsertFailed", "UpdateFailed", "QueryFailed", "BadRequest"}

HttpStatuses == {"http 400", "http 401", "http 403", "http 404", "http 429", "http 500"}

\* Raw messages: HTTP failures, unique-constraint failures naming a column or
\* none, a duplicate report without a constraint name, the other constraint
\* failures, and a message of no known kind.
RawMessages ==
    {RawHttp(code) : code \in HttpStatuses}
        \cup {RawUnique(col) : col \in {"", "email", "role"}}
        \cup {Message("raw", "", {"duplicate"}, ""),
              Message("raw", "", {"foreign key constraint"}, ""),
              Message("raw", "", {"not null constraint"}, "age"),
              Message("raw", "", {"not null constraint"}, "email"),
              Message("raw", "", {"check constraint"}, ""),
              Message("raw", "", {}, "")}

ClassifyWhere == [EmptyRecord EXCEPT !.id = Num(1)]

\* The statements of create, update, findOne, count and delete.
FailingStatements ==
    {InsertSql(TableName, PrepareDataForInsert(DefaultOptions,
                              [EmptyRecord EXCEPT !.email = Key, !.age = Num(MinAge)])),
     BuildUpdate(AddWhereConditions(NewQueryBuilder(TableName), 1, ClassifyWhere),
                 UpdateKeyOrder,
                 PrepareDataForUpdate(DefaultOptions,
                                      [EmptyRecord EXCEPT !.email = Key])).sql,
     BuildUpdate(AddWhereConditions(NewQueryBuilder(TableName), 1, ClassifyWhere),
                 UpdateKeyOrder,
                 PrepareDataForUpdate(DefaultOptions,
                                      [EmptyRecord EXCEPT !.role = Str("admin", 5)])).sql,
     Build(FindOneQuery(DefaultOptions, ClassifyWhere)).sql,
     BuildCount(AddWhereConditions(NewQueryBuilder(TableName), 1, ClassifyWhere)).sql,
     BuildDelete(AddWhereConditions(NewQueryBuilder(TableName), 1, ClassifyWhere)).sql}

SqlLengths == {ExcerptLimit - 1, ExcerptLimit, ExcerptLimit + 1, 2 * ExcerptLimit}

ClassifyIdle ==
    [pc |-> "idle", raw |-> NoError, sql |-> Build(NewQueryBuilder(TableName)).sql,
     sqlLength |-> 0, first |-> NoError, thrown |-> NoError, excerpt |-> 0]

InitClassify ==
    /\ ops = ClassifyIdle
    /\ db = << >> /\ nextId = 1
    /\ cr = Unused /\ up = Unused /\ lastWriter = Unused
    /\ fd = Unused /\ bk = Unused /\ pct = Unused /\ qb = Unused

notClassify == <<db, nextId, cr, up, lastWriter, fd, bk, pct, qb>>

\* executeQuery(sql, params) is called and the executor fails the statement.
ExecuteQueryCall ==
    /\ ops.pc \in {"idle", "thrown"}
    /\ \E raw \in RawMessages, sql \in FailingStatements, len \in SqlLengths :
          ops' = [ClassifyIdle EXCEPT !.pc = "failed", !.raw = raw, !.sql = sql,
                                      !.sqlLength = len]
    /\ UNCHANGED notClassify

\* `throw new Error(this.parseDbError(error, sql))` inside the try block.
ExecuteQueryThrow ==
    /\ ops.pc = "failed"
    /\ ops' = [ops EXCEPT !.pc = "caught",
                          !.first = ParseDbError(DefaultOptions, ops.raw, ops.sql)]
    /\ UNCHANGED notClassify

\* The catch block: the message is classified again and rethrown.
ExecuteQueryCatch ==
    /\ ops.pc = "caught"
    /\ \E out \in {ExecuteQueryError(DefaultOptions, ops.raw, ops.sql)} :
          ops' = [ops EXCEPT !.pc = "thrown", !.thrown = out,
                             !.excerpt = IF QuotesSql(out) THEN SqlExcerpt(ops.sqlLength)
                                         ELSE 0]
    /\ UNCHANGED notClassify

NextClassify ==
    \/ ExecuteQueryCall
    \/ ExecuteQueryThrow
    \/ ExecuteQueryCatch

SpecClassify == InitClassify /\ [][NextClassify]_vars

(***************************************************************************)
(* Claims about the classification of executor failures (SpecClassify)     *)
(***************************************************************************)
\* The categories of an HTTP status.
StatusCategories(code) ==
    CASE code = "http 400" -> {"InsertFailed", "UpdateFailed", "QueryFailed", "BadRequest"}
      [] code = "http 401" -> {"Unauthorized"}
      [] code = "http 403" -> {"Forbidden"}
      [] code = "http 404" -> {"NotFound"}
      [] code = "http 429" -> {"RateLimited"}
      [] code = "http 500" -> {"ServerError"}
      [] OTHER -> {}

HttpFailure == \E code \in HttpStatuses : ops.raw = RawHttp(code)
StatusOf(raw) == CHOOSE code \in HttpStatuses : raw = RawHttp(code)

ClassifiedByStatus ==
    /\ ops.thrown.cat \in StatusCategories(StatusOf(ops.raw))
    /\ ops.excerpt <= ExcerptLimit
    /\ ops.excerpt <= ops.sqlLength

\* C16: a failure whose raw message holds an HTTP status code and no
\* constraint text reaches the caller under that status code's category and
\* no other, for every kind of statement, with at most 200 characters of the
\* statement quoted.
C16_HttpFailuresClassified ==
    (ops.pc = "thrown" /\ HttpFailure) => ClassifiedByStatus

\* C16, where it holds: every status on every statement but HTTP 400 on an
\* INSERT.
C16_ClassifiedButInsert400 ==
    (/\ ops.pc = "thrown" /\ HttpFailure
     /\ ~(ops.raw = RawHttp("http 400") /\ ops.sql.kind = "INSERT"))
        => ClassifiedByStatus

\* C16, the failing case reached: an INSERT answered with HTTP 400 reaches
\* the caller as a duplicate entry on email.
C16_Insert400IsDuplicate ==
    /\ ops.pc = "thrown" /\ ops.raw = RawHttp("http 400") /\ ops.sql.kind = "INSERT"
    /\ ops.first.cat = "InsertFailed"
    /\ ops.thrown.cat = "DuplicateEntry" /\ ops.thrown.field = "email"

\* C16, the truncation reached: an UPDATE of 400 characters answered with
\* HTTP 400 is quoted up to 200 characters.
C16_ExcerptTruncated ==
    /\ ops.pc = "thrown" /\ ops.raw = RawHttp("http 400") /\ ops.sql.kind = "UPDATE"
    /\ ops.sqlLength = 2 * ExcerptLimit
    /\ ops.thrown.cat = "UpdateFailed" /\ ops.excerpt = ExcerptLimit

\* The executor reports a unique-constraint failure.
UniqueFailure == "unique constraint" \in ops.raw.toks

\* C17: a unique-constraint failure whose raw message names the column is
\* raised as a duplicate-entry error naming that column; the field is taken
\* from the keywords of the SQL only when the raw message names no column.
C17_DuplicateNamesColumn ==
    (ops.pc = "thrown" /\ UniqueFailure) =>
        /\ ops.thrown.cat = "DuplicateEntry"
        /\ ops.raw.col # "" => ops.thrown.field = ops.raw.col
        /\ ops.raw.col = "" =>
              ops.thrown.field = DuplicateField(ops.raw, ops.sql)

\* C17, what holds: the first classification names the column of the raw
\* message, and the error raised is a duplicate entry.
C17_FirstPassNamesColumn ==
    (ops.pc = "thrown" /\ UniqueFailure) =>
        /\ ops.thrown.cat = "DuplicateEntry"
        /\ ops.first.cat = "DuplicateEntry"
        /\ ops.raw.col # "" => ops.first.field = ops.raw.col

\* C17, the failing cases reached: a failure on role during an INSERT is
\* raised as a duplicate email, and a failure on email during an UPDATE
\* names no column.
C17_InsertBlamesEmail ==
    /\ ops.pc = "thrown" /\ ops.raw = RawUnique("role") /\ ops.sql.kind = "INSERT"
    /\ ops.first.field = "role" /\ ops.thrown.field = "email"

C17_UpdateLosesColumn ==
    /\ ops.pc = "thrown" /\ ops.raw = RawUnique("email") /\ ops.sql.kind = "UPDATE"
    /\ ops.first.field = "email" /\ ops.thrown.field = "field"

(***************************************************************************)
(* Claims about optional fields the caller omits (SpecCreate)              *)
(***************************************************************************)
\* The optional fields the caller of the running create left absent.
OmittedOptional ==
    {f \in FieldNames :
        /\ IsSchemaField(DefaultOptions, f)
        /\ ~FieldOf(DefaultOptions, f).required
        /\ cr.data[f] = Undef}

\* The fields the validation errors of the running create name.
FieldsInError == {cr.error.errors[i].field : i \in 1..Len(cr.error.errors)}

\* C18: a create that omits an optional field never fails validation because
\* of that field, whatever bounds the field declares.
C18_OmittedOptionalNotValidated ==
    (cr.pc = "failed" /\ cr.error.cat = "Validation")
        => FieldsInError \cap OmittedOptional = {}

\* C18, where it holds: an omitted optional field is named by no error other
\* than a range error on the fallback the insert preparation put in its place.
C18_OnlyFallbackOutOfRange ==
    (cr.pc = "failed" /\ cr.error.cat = "Validation") =>
        \A i \in 1..Len(cr.error.errors) :
            cr.error.errors[i].field \in OmittedOptional =>
                /\ cr.error.errors[i].kind = "min"
                /\ cr.prepared[cr.error.errors[i].field]
                      = FallbackDefault(FieldOf(DefaultOptions, cr.error.errors[i].field).type)

\* C18, the failing case reached: create({email, role}) without age fails on
\* the minimum of age, the only error of the call.
C18_OmittedAgeBelowMinimum ==
    /\ cr.pc = "failed"
    /\ cr.data.email # Undef /\ cr.data.age = Undef
    /\ cr.prepared.age = Num(0)
    /\ cr.error.cat = "Validation"
    /\ cr.error.errors = << ValidationError("age", "min", MinAge) >>

(***************************************************************************)
(* Specification SpecRace: one caller running upsert or upsertById on the  *)
(* key while another caller deletes or changes the stored row between the  *)
(* statements of the call.                                                 *)
(***************************************************************************)
MaxInterference == 2

Upserter == "a"

UpsertIds == {Num(1), Num(2)}

\* INSERT of a row whose id the statement supplies: the primary key is
\* unique, and the table's sequence moves past the id.
ExecInsertWithId(opts, table, nid, prepared) ==
    IF \E i \in 1..Len(table) : table[i].id = prepared.id
    THEN QueryResult(FALSE, << >>, 0, 0, RawUnique("id"), table, nid)
    ELSE IF UniqueViolations(opts, table, prepared) # {}
    THEN ExecInsert(opts, table, nid, prepared)
    ELSE QueryResult(TRUE, << >>, 1, prepared.id.n, NoError,
                     Append(table, StoredRow(prepared, prepared.id.n)),
                     IF prepared.id.n >= nid THEN prepared.id.n + 1 ELSE nid)

RaceIdle == [writes |-> 0, deletes |-> 0]

InitRace ==
    /\ db \in {<< >>, << ExistingRow(Key) >>}
    /\ nextId = Len(db) + 1
    /\ up = [p \in Callers |-> UpsertIdle]
    /\ lastWriter = NoWriter
    /\ ops = RaceIdle
    /\ cr = Unused /\ fd = Unused /\ bk = Unused /\ pct = Unused /\ qb = Unused

notRace == <<cr, fd, bk, pct, qb>>

\* upsertById(id, data) is called.
UpsertByIdCall(p) ==
    /\ up[p].pc = "idle"
    /\ \E id \in UpsertIds :
          up' = [up EXCEPT ![p] = [UpsertIdle EXCEPT !.pc = "findById", !.style = "byId",
                                                     !.updId = id]]
    /\ UNCHANGED <<db, nextId, lastWriter, ops, notRace>>

\* const existingRecord = await this.findById(id)
UpsertByIdFind(p) ==
    /\ up[p].pc = "findById"
    /\ LET q == RunQuery(db, FindByIdQuery(DefaultOptions, up[p].updId))
           found == FirstOrNull(q.records)
       IN up' = [up EXCEPT ![p].pc = IF found = EmptyRecord THEN "createWithId" ELSE "update",
                           ![p].existing = found,
                           ![p].issued = Append(@, q.sql.kind)]
    /\ UNCHANGED <<db, nextId, lastWriter, ops, notRace>>

\* const newRecord = await this.create({ ...data, id }), up to create's
\* INSERT; no catch block surrounds it.
UpsertByIdCreate(p) ==
    /\ up[p].pc = "createWithId"
    /\ LET prepared == PrepareDataForInsert(DefaultOptions,
                           [CreatePayload(p) EXCEPT !.id = up[p].updId])
           validation == Validate(DefaultOptions, prepared)
           insert == InsertSql(TableName, prepared)
           res == ExecInsertWithId(DefaultOptions, db, nextId, prepared)
           thrown == Thrown(ExecuteQueryError(DefaultOptions, res.error, insert))
       IN IF ~validation.isValid
          THEN /\ up' = [up EXCEPT ![p].pc = "failed",
                                   ![p].error = ValidationFailed(validation.errors)]
               /\ UNCHANGED <<db, nextId, lastWriter>>
          ELSE /\ up' = [up EXCEPT
                           ![p].pc = IF res.success THEN "refetch" ELSE "failed",
                           ![p].error = IF res.success THEN @ ELSE thrown,
                           ![p].lastRowId = res.lastRowId,
                           ![p].issued = Append(@, "INSERT")]
               /\ db' = res.table
               /\ nextId' = res.nextId
               /\ lastWriter' = IF res.success THEN [who |-> p, kind |-> "INSERT"]
                                ELSE lastWriter
    /\ UNCHANGED <<ops, notRace>>

\* Another caller runs deleteById on a stored row.
OtherDeleteById ==
    /\ ops.writes < MaxInterference
    /\ \E i \in 1..Len(db) :
          \E res \in {DeleteById(DefaultOptions, db, db[i].id)} :
             /\ db' = res.table
             /\ ops' = [ops EXCEPT !.writes = @ + 1, !.deletes = @ + res.changes]
    /\ UNCHANGED <<nextId, up, lastWriter, notRace>>

\* Another caller runs updateById on a stored row.
OtherUpdateById ==
    /\ ops.writes < MaxInterference
    /\ \E i \in 1..Len(db) :
          \E res \in {Update(DefaultOptions, db,
                             [EmptyRecord EXCEPT !.role = Str("admin", 5)],
                             WhereId(db[i].id))} :
             /\ db' = res.table
             /\ ops' = [ops EXCEPT !.writes = @ + 1]
    /\ UNCHANGED <<nextId, up, lastWriter, notRace>>

NextRace ==
    \/ UpsertCall(Upserter)
    \/ UpsertFind(Upserter)
    \/ UpsertCreate(Upserter)
    \/ UpsertRefetch(Upserter)
    \/ UpsertRefind(Upserter)
    \/ UpsertUpdate(Upserter)
    \/ UpsertReread(Upserter)
    \/ UpsertByIdCall(Upserter)
    \/ UpsertByIdFind(Upserter)
    \/ UpsertByIdCreate(Upserter)
    \/ OtherDeleteById
    \/ OtherUpdateById

SpecRace == InitRace /\ [][NextRace]_vars

(***************************************************************************)
(* Claims about an upsert that reports an update (SpecRace)                *)
(***************************************************************************)
\* The step in which the call returns {created: false, updated: true}.
ReturnsUpdated ==
    /\ up[Upserter].pc # "done"
    /\ up'[Upserter].pc = "done"
    /\ ~up'[Upserter].result.created
    /\ up'[Upserter].result.updated

\* The returning step is updateById's re-fetch, which runs only after an
\* UPDATE that changed a row, and the record returned is the row it finds.
ReturnsRefetchedRow ==
    /\ up[Upserter].pc = "reread"
    /\ \E i \in 1..Len(db) :
          /\ db[i].id = up[Upserter].updId
          /\ up'[Upserter].result.record = db[i]

\* C19: whenever upsert or upsertById returns {created: false, updated:
\* true}, its UPDATE affected a stored row and the record returned is that
\* row as re-fetched after the update, also when another caller deletes or
\* changes the row between the find and the update.
C19_UpdatedMeansRowUpdated == [][ReturnsUpdated => ReturnsRefetchedRow]_vars

\* C19, where it holds: as long as no other caller has deleted a row.
C19_HoldsWithoutDelete ==
    [][(ReturnsUpdated /\ ops.deletes = 0) => ReturnsRefetchedRow]_vars

\* C19, the failing case reached: the row is deleted between the find and
\* the UPDATE, the UPDATE changes nothing, and the call returns the record
\* of its find as updated.
C19_UpdatedAfterDelete ==
    /\ up[Upserter].pc = "done"
    /\ up[Upserter].result = UpsertResult(up[Upserter].existing, FALSE, TRUE)
    /\ up[Upserter].issued[Len(up[Upserter].issued)] = "UPDATE"
    /\ ops.deletes = 1
    /\ db = << >>

\* C19, the concurrent change reached: another caller changed the row
\* before the UPDATE, and the call returns the re-fetched row.
C19_RefetchedAfterChange ==
    /\ up[Upserter].pc = "done"
    /\ up[Upserter].result.updated
    /\ ops.writes > 0 /\ ops.deletes = 0
    /\ up[Upserter].existing.role = Str("user", 4)
    /\ Len(db) = 1 /\ up[Upserter].result.record = db[1]
    /\ db[1].role = Str("admin", 5)

(***************************************************************************)
(* Specification SpecMatch: one caller running upsert(data, uniqueFields)  *)
(* and createIfNotExists(data, uniqueFields), call after call, for         *)
(* payloads that define or omit the fields the list names.                 *)
(***************************************************************************)
MaxMatchRows == 2

MatchPayloads ==
    {[EmptyRecord EXCEPT !.email = e, !.age = Num(MinAge), !.role = r] :
        e \in {Undef, Key, Str("e@f.com", 7)}, r \in {Undef, Str("admin", 5)}}

UniqueFieldLists == {{"email"}, {"role"}, {"email", "role"}}

MatchIdle ==
    [pc |-> "idle", kind |-> "idle", data |-> EmptyRecord, uniqueFields |-> {},
     before |-> << >>, found |-> EmptyRecord, record |-> EmptyRecord,
     created |-> FALSE, updated |-> FALSE, createError |-> NotThrown,
     error |-> NotThrown]

InitMatch ==
    /\ db \in WriteTables
    /\ nextId = Len(db) + 1
    /\ ops = MatchIdle
    /\ cr = Unused /\ up = Unused /\ lastWriter = Unused
    /\ fd = Unused /\ bk = Unused /\ pct = Unused /\ qb = Unused

notMatch == <<cr, up, lastWriter, fd, bk, pct, qb>>

\* upsert(data, uniqueFields) or createIfNotExists(data, uniqueFields) is
\* called.
MatchCall ==
    /\ ops.pc \in {"idle", "done", "failed"}
    /\ Len(db) <= MaxMatchRows
    /\ \E kind \in {"upsert", "createIfNotExists"}, data \in MatchPayloads,
          uniqueFields \in UniqueFieldLists :
          ops' = [MatchIdle EXCEPT !.pc = "find", !.kind = kind, !.data = data,
                                   !.uniqueFields = uniqueFields, !.before = db]
    /\ UNCHANGED <<db, nextId, notMatch>>

\* const existingRecord = await this.findOne({ where: whereConditions })
MatchFind ==
    /\ ops.pc = "find"
    /\ \E existing \in {FindOne(DefaultOptions, db,
                                WhereFromUnique(ops.data, ops.uniqueFields))} :
          ops' = [ops EXCEPT
                    !.pc = IF existing = EmptyRecord THEN "create"
                           ELSE IF ops.kind = "upsert" THEN "update" ELSE "done",
                    !.found = existing,
                    !.record = IF existing # EmptyRecord /\ ops.kind # "upsert"
                               THEN existing ELSE @]
    /\ UNCHANGED <<db, nextId, notMatch>>

\* try { const newRecord = await this.create(data) } and the catch block's
\* test of the message.
MatchCreate ==
    /\ ops.pc = "create"
    /\ \E run \in {CreateRun(DefaultOptions, NoHooks, db, nextId, ops.data, "none")} :
          /\ ops' = [ops EXCEPT
                       !.pc = IF run.error = NotThrown THEN "done"
                              ELSE IF MentionsDuplicate(run.error) THEN "refind"
                              ELSE "failed",
                       !.record = run.record,
                       !.created = run.error = NotThrown,
                       !.createError = run.error,
                       !.error = IF run.error # NotThrown /\ ~MentionsDuplicate(run.error)
                                 THEN run.error ELSE @]
          /\ db' = run.table
          /\ nextId' = run.nextId
    /\ UNCHANGED notMatch

\* The catch block: findOne again, `throw error` when nothing is found.
MatchRefind ==
    /\ ops.pc = "refind"
    /\ \E existing \in {FindOne(DefaultOptions, db,
                                WhereFromUnique(ops.data, ops.uniqueFields))} :
          ops' = [ops EXCEPT
                    !.pc = IF existing = EmptyRecord THEN "failed"
                           ELSE IF ops.kind = "upsert" THEN "update" ELSE "done",
                    !.found = existing,
                    !.record = IF existing # EmptyRecord /\ ops.kind # "upsert"
                               THEN existing ELSE @,
                    !.error = IF existing = EmptyRecord THEN ops.createError ELSE @]
    /\ UNCHANGED <<db, nextId, notMatch>>

\* upsert's updateById(existingRecord.id, data) and
\* `updatedRecord || existingRecord`.
MatchUpdate ==
    /\ ops.pc = "update"
    /\ \E upd \in {Update(DefaultOptions, db, ops.data, WhereId(ops.found.id))} :
          /\ db' = upd.table
          /\ \E reread \in {FindById(DefaultOptions, upd.table, ops.found.id)} :
                ops' = [ops EXCEPT
                          !.pc = IF upd.error # NotThrown THEN "failed" ELSE "done",
                          !.error = upd.error,
                          !.updated = upd.error = NotThrown,
                          !.record = IF upd.error # NotThrown THEN @
                                     ELSE IF upd.changes > 0 /\ reread # EmptyRecord
                                     THEN reread ELSE ops.found]
    /\ UNCHANGED <<nextId, notMatch>>

NextMatch ==
    \/ MatchCall
    \/ MatchFind
    \/ MatchCreate
    \/ MatchRefind
    \/ MatchUpdate

SpecMatch == InitMatch /\ [][NextMatch]_vars

(***************************************************************************)
(* Claims about the record the unique fields select (SpecMatch)            *)
(***************************************************************************)
\* The call treated a stored record as the existing one.
TookExisting ==
    /\ ops.pc = "done"
    /\ ~ops.created

\* The record the call took agrees with the data on every listed field.
AgreesOnUniqueFields ==
    \A f \in ops.uniqueFields : ops.found[f] = ops.data[f]

\* Nothing but the record the call took was changed.
OnlyFoundChanged ==
    /\ Len(db) = Len(ops.before)
    /\ \A i \in 1..Len(db) : db[i] # ops.before[i] => ops.before[i] = ops.found

\* C21: upsert(data, uniqueFields) and createIfNotExists(data, uniqueFields)
\* never update, nor return as the existing record, a record whose values
\* for the listed unique fields differ from the values the data has for
\* them, for every data and every list.
C21_ExistingMatchesUniqueFields ==
    TookExisting => (AgreesOnUniqueFields /\ OnlyFoundChanged)

\* C21, where it holds: when the data defines every listed field.
C21_DefinedFieldsMatch ==
    (TookExisting /\ \A f \in ops.uniqueFields : ops.data[f] # Undef)
        => (AgreesOnUniqueFields /\ OnlyFoundChanged)

\* C21, the failing case reached: upsert of data without email, listed
\* unique field email, rewrites the first stored record.
C21_UpsertRewritesFirstRecord ==
    /\ ops.pc = "done" /\ ops.kind = "upsert" /\ ops.uniqueFields = {"email"}
    /\ ops.data.email = Undef /\ ops.data.role = Str("admin", 5)
    /\ ops.updated
    /\ Len(ops.before) = 2
    /\ ops.before[1].role = Str("user", 4) /\ db[1].role = Str("admin", 5)
    /\ ops.record = db[1]

\* C21, the matching case reached: the data defines email and the record
\* taken holds that email.
C21_UpsertUpdatesMatchingRecord ==
    /\ ops.pc = "done" /\ ops.kind = "upsert" /\ ops.uniqueFields = {"email"}
    /\ ops.data.email = Key /\ ops.updated
    /\ ops.found.email = Key /\ ops.record.email = Key
    /\ Len(ops.before) = 2

(***************************************************************************)
(* Specification SpecRestore: a soft-delete-enabled model whose caller     *)
(* creates records, soft-deletes them, restores them and lists them.       *)
(***************************************************************************)
RestoreIdle ==
    [op |-> "none", where |-> EmptyRecord, before |-> << >>, error |-> NotThrown,
     changes |-> 0, records |-> << >>]

InitRestore ==
    /\ db = << >>
    /\ nextId = 1
    /\ ops = RestoreIdle
    /\ cr = Unused /\ up = Unused /\ lastWriter = Unused
    /\ fd = Unused /\ bk = Unused /\ pct = Unused /\ qb = Unused

notRestore == <<cr, up, lastWriter, fd, bk, pct, qb>>

RestoreCreate ==
    /\ Len(db) < MaxRows
    /\ \E data \in FindCreateInputs :
          \E run \in {CreateRun(SoftDeleteOptions, NoHooks, db, nextId, data, "none")} :
             /\ db' = run.table
             /\ nextId' = run.nextId
             /\ ops' = [RestoreIdle EXCEPT !.op = "create", !.before = db,
                                           !.error = run.error]
    /\ UNCHANGED notRestore

\* softDelete(where): update({ deleted_at: new Date() }, where) and its
\* meta.changes.
RestoreSoftDelete ==
    /\ \E where \in FindWheres :
          \E res \in {SoftDelete(SoftDeleteOptions, db, where)} :
             /\ db' = res.table
             /\ ops' = [RestoreIdle EXCEPT !.op = "softDelete", !.where = where,
                                           !.before = db, !.error = res.error,
                                           !.changes = res.changes]
    /\ UNCHANGED <<nextId, notRestore>>

\* restore(where): update({ deleted_at: null }, where) and its meta.changes.
RestoreCall ==
    /\ \E where \in FindWheres :
          \E res \in {Restore(SoftDeleteOptions, db, where)} :
             /\ db' = res.table
             /\ ops' = [RestoreIdle EXCEPT !.op = "restore", !.where = where,
                                           !.before = db, !.error = res.error,
                                           !.changes = res.changes]
    /\ UNCHANGED <<nextId, notRestore>>

RestoreFindAll ==
    /\ \E where \in FindWheres :
          \E q \in {RunQuery(db, FindAllQuery(SoftDeleteOptions, where))} :
             ops' = [RestoreIdle EXCEPT !.op = "findAll", !.where = where,
                                        !.before = db, !.records = q.records]
    /\ UNCHANGED <<db, nextId, notRestore>>

NextRestore ==
    \/ RestoreCreate
    \/ RestoreSoftDelete
    \/ RestoreCall
    \/ RestoreFindAll

SpecRestore == InitRestore /\ [][NextRestore]_vars

(***************************************************************************)
(* Claims about softDelete and restore (SpecRestore)                       *)
(***************************************************************************)
\* The positions of the records of the table before the call that satisfy
\* every entry of the call's where mapping.
MatchedBefore ==
    {i \in 1..Len(ops.before) :
        \A f \in FieldNames : ops.where[f] # Undef => ops.before[i][f] = ops.where[f]}

\* The call went through and counted the records it matched.
WentThrough ==
    /\ ops.error = NotThrown
    /\ ops.changes = Cardinality(MatchedBefore)
    /\ Len(db) = Len(ops.before)

\* C22: on a soft-delete-enabled model restore(where) after softDelete(where)
\* succeeds: it clears deleted_at on the matched records, returns their
\* count, and findAll returns the records again.
C22_RestoreRoundTrip ==
    ops.op = "restore" =>
        /\ WentThrough
        /\ \A i \in MatchedBefore : db[i].deleted_at = Null
        /\ \A i \in MatchedBefore :
              \E j \in 1..Len(FindAll(SoftDeleteOptions, db, ops.where)) :
                 FindAll(SoftDeleteOptions, db, ops.where)[j].id = db[i].id

\* C22, the half that holds: softDelete(where) goes through, stamps
\* deleted_at on the matched records and returns their count.
C22_SoftDeleteStamps ==
    ops.op = "softDelete" =>
        /\ WentThrough
        /\ \A i \in MatchedBefore : db[i].deleted_at = ToISOString(Clock)

\* C22, the failing case reached: restore of a soft-deleted record is
\* rejected by the update validation and the record stays deleted.
C22_RestoreRejected ==
    /\ ops.op = "restore"
    /\ ops.where = [EmptyRecord EXCEPT !.id = Num(1)]
    /\ ops.error.cat = "Validation"
    /\ ops.error.errors = << ValidationError("deleted_at", "type", 0) >>
    /\ Len(db) > 0 /\ db[1].deleted_at = ToISOString(Clock)
    /\ db = ops.before

\* C22, the soft delete reached: a stored record is soft-deleted.
C22_SoftDeleted ==
    /\ ops.op = "softDelete" /\ ops.changes = 1
    /\ ops.before[1].deleted_at = Null /\ db[1].deleted_at = ToISOString(Clock)

(***************************************************************************)
(* Specification SpecLoop: the chunk loops of BulkOperations.bulkCreate,   *)
(* bulkUpsert and batchInsert, one call, for chunk sizes from 0 upwards.   *)
(* FairLoop is the same call under a scheduler that keeps running it.      *)
(***************************************************************************)
MaxLoopItems == 2
MaxTurns == MaxLoopItems + 1

LoopOps == {"bulkCreate", "bulkUpsert", "batchInsert"}

LoopChunkSizes == {0, 1, MaxLoopItems, DefaultChunkSize}

LoopLists == UNION {[1..n -> ItemKinds] : n \in 0..MaxLoopItems}

\* records.slice(from, to) for 0 <= from <= to.
Slice(items, from, to) ==
    SubSeq(items, from + 1, IF to < Len(items) THEN to ELSE Len(items))

\* Turns of the outer loop, counted up to MaxTurns.
NextTurn(t) == IF t < MaxTurns THEN t + 1 ELSE t

LoopIdle ==
    [pc |-> "idle", op |-> "bulkCreate", items |-> << >>, coe |-> TRUE,
     chunkSize |-> DefaultChunkSize, i |-> 0, j |-> 0, created |-> 0, updated |-> 0,
     errors |-> 0, visited |-> 0, turns |-> 0]

InitLoop ==
    /\ db \in {<< >>, << ExistingRow(Key) >>}
    /\ nextId = Len(db) + 1
    /\ ops = LoopIdle
    /\ cr = Unused /\ up = Unused /\ lastWriter = Unused
    /\ fd = Unused /\ bk = Unused /\ pct = Unused /\ qb = Unused

notLoop == <<cr, up, lastWriter, fd, bk, pct, qb>>

\* A bulk method is called; batchInsert returns at once on an empty list.
LoopCall ==
    /\ ops.pc = "idle"
    /\ \E op \in LoopOps, items \in LoopLists, coe \in BOOLEAN,
          chunkSize \in LoopChunkSizes :
          ops' = [LoopIdle EXCEPT
                    !.pc = IF op = "batchInsert" /\ Len(items) = 0 THEN "done"
                           ELSE "outer",
                    !.op = op, !.items = items, !.coe = coe, !.chunkSize = chunkSize]
    /\ UNCHANGED <<db, nextId, notLoop>>

\* for (let i = 0; i < records.length; i += chunkSize) with the slice of the
\* chunk, in bulkCreate and bulkUpsert; an empty chunk runs no inner pass.
LoopHeader ==
    /\ ops.pc = "outer" /\ ops.op # "batchInsert"
    /\ \E chunk \in {Slice(ops.items, ops.i, ops.i + ops.chunkSize)} :
          ops' = IF ops.i >= Len(ops.items)
                 THEN [ops EXCEPT !.pc = "done"]
                 ELSE IF Len(chunk) = 0
                 THEN [ops EXCEPT !.i = @ + ops.chunkSize, !.turns = NextTurn(@)]
                 ELSE [ops EXCEPT !.pc = "inner", !.j = 0, !.turns = NextTurn(@)]
    /\ UNCHANGED <<db, nextId, notLoop>>

\* What one inner pass leaves behind: the counters, the throw on
\* continueOnError = false, and the step to the next item or chunk.
AfterItem(ok, created, updated) ==
    LET chunk == Slice(ops.items, ops.i, ops.i + ops.chunkSize)
        last == ops.j + 1 >= Len(chunk)
    IN [ops EXCEPT
          !.pc = IF ~ok /\ ~ops.coe THEN "thrown"
                 ELSE IF last THEN "outer" ELSE "inner",
          !.i = IF last /\ (ok \/ ops.coe) THEN @ + ops.chunkSize ELSE @,
          !.j = IF last THEN 0 ELSE @ + 1,
          !.created = @ + created,
          !.updated = @ + updated,
          !.errors = IF ok THEN @ ELSE @ + 1,
          !.visited = @ + 1]

\* bulkCreate's inner pass: await this.create(record).
LoopCreateItem ==
    /\ ops.pc = "inner" /\ ops.op = "bulkCreate"
    /\ \E run \in {CreateRun(DefaultOptions, NoHooks, db, nextId,
                             CreateItem(ops.items[ops.i + ops.j + 1], ops.i + ops.j + 1),
                             "none")} :
          /\ ops' = AfterItem(run.error = NotThrown,
                              IF run.error = NotThrown THEN 1 ELSE 0, 0)
          /\ db' = run.table
          /\ nextId' = run.nextId
    /\ UNCHANGED notLoop

\* bulkUpsert's inner pass: await this.upsert(data, uniqueFields) with the
\* email as the unique field.
LoopUpsertItem ==
    /\ ops.pc = "inner" /\ ops.op = "bulkUpsert"
    /\ \E data \in {CreateItem(ops.items[ops.i + ops.j + 1], ops.i + ops.j + 1)} :
       \E existing \in {FindOne(DefaultOptions, db, WhereFromUnique(data, {"email"}))} :
          \/ /\ existing # EmptyRecord
             /\ \E upd \in {Update(DefaultOptions, db, data, WhereId(existing.id))} :
                   /\ ops' = AfterItem(upd.error = NotThrown, 0,
                                       IF upd.error = NotThrown THEN 1 ELSE 0)
                   /\ db' = upd.table
                   /\ nextId' = nextId
          \/ /\ existing = EmptyRecord
             /\ \E run \in {CreateRun(DefaultOptions, NoHooks, db, nextId, data, "none")} :
                   /\ ops' = AfterItem(run.error = NotThrown,
                                       IF run.error = NotThrown THEN 1 ELSE 0, 0)
                   /\ db' = run.table
                   /\ nextId' = run.nextId
    /\ UNCHANGED notLoop

\* batchInsert's loop: the test, the slice and the statement of one chunk.
\* A failed chunk records one error per record of the chunk and the loop
\* goes on.
LoopBatchChunk ==
    /\ ops.pc = "outer" /\ ops.op = "batchInsert"
    /\ \E chunk \in {Slice(ops.items, ops.i, ops.i + ops.chunkSize)} :
          IF ops.i >= Len(ops.items)
          THEN /\ ops' = [ops EXCEPT !.pc = "done"]
               /\ UNCHANGED <<db, nextId>>
          ELSE \E res \in {BatchInsert(DefaultOptions, db, nextId,
                                       [k \in 1..Len(chunk) |->
                                           CreateItem(chunk[k], ops.i + k)], FALSE)} :
                  /\ ops' = [ops EXCEPT !.i = @ + ops.chunkSize,
                                        !.turns = NextTurn(@),
                                        !.created = @ + res.created,
                                        !.errors = @ + Len(res.errors),
                                        !.visited = @ + Len(chunk)]
                  /\ db' = res.table
                  /\ nextId' = res.nextId
    /\ UNCHANGED notLoop

NextLoop ==
    \/ LoopCall
    \/ LoopHeader
    \/ LoopCreateItem
    \/ LoopUpsertItem
    \/ LoopBatchChunk

SpecLoop == InitLoop /\ [][NextLoop]_vars

FairLoop == SpecLoop /\ WF_vars(NextLoop)

(***************************************************************************)
(* Claims about the termination of the bulk loops (SpecLoop, FairLoop)     *)
(***************************************************************************)
Running == ops.pc \in {"outer", "inner"}
Finished == ops.pc \in {"done", "thrown"}

\* C23: every bulk operation over a finite list terminates for every value
\* of chunkSize: it returns after visiting every item, or raises.
C23_BulkTerminates == Running ~> Finished

\* C23, where it holds: with a chunk size above 0 the call ends.
C23_PositiveChunksTerminate == (Running /\ ops.chunkSize > 0) ~> Finished

\* C23, the visits: a call that returns has visited every item, and with a
\* chunk size above 0 the outer loop takes no more turns than there are
\* items.
C23_ReturnsAfterEveryItem ==
    /\ ops.pc = "done" => ops.visited = Len(ops.items)
    /\ ops.chunkSize > 0 => ops.turns <= Len(ops.items)

\* C23, the failing case reached: with chunkSize 0 the loop of bulkCreate
\* has gone round more often than there are items and visited none.
C23_ZeroChunkSpins ==
    /\ ops.pc = "outer" /\ ops.op = "bulkCreate" /\ ops.chunkSize = 0
    /\ Len(ops.items) = MaxLoopItems
    /\ ops.i = 0 /\ ops.visited = 0
    /\ ops.turns = MaxTurns

\* C23, the ordinary case reached: bulkUpsert in chunks of one returns after
\* visiting every item.
C23_ChunksOfOneVisited ==
    /\ ops.pc = "done" /\ ops.op = "bulkUpsert" /\ ops.chunkSize = 1
    /\ Len(ops.items) = MaxLoopItems
    /\ ops.visited = MaxLoopItems /\ ops.turns = MaxLoopItems

(***************************************************************************)
(* Specification SpecBounds: Schema.validate and validateUpdateData on one *)
(* field that declares one length or range bound, for bounds from 0        *)
(* upwards and values on both sides of them.                               *)
(***************************************************************************)
MaxBound == 2

BoundKinds == {"min", "max", "minLength", "maxLength"}

\* The field a bound of the kind is declared on.
BoundedField(kind, bound) ==
    IF kind \in {"min", "max"}
    THEN [FieldDef("age", "number", FALSE, FALSE, FALSE, FALSE, Undef) EXCEPT ![kind] = bound]
    ELSE [FieldDef("role", "string", FALSE, FALSE, FALSE, FALSE, Undef) EXCEPT ![kind] = bound]

\* Values around the bounds: numbers from -1 up, strings from the empty one.
BoundedValues(kind) ==
    IF kind \in {"min", "max"}
    THEN {Num(n) : n \in (0 - 1)..(MaxBound + 1)}
    ELSE {Str("", 0)} \cup {Str("x", n) : n \in 1..(MaxBound + 1)}

BoundsIdle ==
    [pc |-> "idle", path |-> "none", kind |-> "min", bound |-> 0, value |-> Undef,
     errors |-> << >>]

InitBounds ==
    /\ ops = BoundsIdle
    /\ db = << >> /\ nextId = 1
    /\ cr = Unused /\ up = Unused /\ lastWriter = Unused
    /\ fd = Unused /\ bk = Unused /\ pct = Unused /\ qb = Unused

notBounds == <<db, nextId, cr, up, lastWriter, fd, bk, pct, qb>>

\* A schema declares the bound and a caller supplies a value for the field.
BoundsDeclare ==
    /\ ops.pc \in {"idle", "validated"}
    /\ \E kind \in BoundKinds, bound \in 0..MaxBound :
          \E value \in BoundedValues(kind) :
             ops' = [BoundsIdle EXCEPT !.pc = "declared", !.kind = kind, !.bound = bound,
                                       !.value = value]
    /\ UNCHANGED notBounds

\* Schema.validate, as create runs it, on the field.
BoundsValidateCreate ==
    /\ ops.pc = "declared"
    /\ ops' = [ops EXCEPT !.pc = "validated", !.path = "create",
                          !.errors = FieldErrors(BoundedField(ops.kind, ops.bound),
                                                 ops.value)]
    /\ UNCHANGED notBounds

\* validateUpdateData, as update runs it, on the field.
BoundsValidateUpdate ==
    /\ ops.pc = "declared"
    /\ ops' = [ops EXCEPT !.pc = "validated", !.path = "update",
                          !.errors = UpdateFieldErrors(BoundedField(ops.kind, ops.bound),
                                                       ops.value)]
    /\ UNCHANGED notBounds

NextBounds ==
    \/ BoundsDeclare
    \/ BoundsValidateCreate
    \/ BoundsValidateUpdate

SpecBounds == InitBounds /\ [][NextBounds]_vars

(***************************************************************************)
(* Claims about declared bounds (SpecBounds)                               *)
(***************************************************************************)
\* The value is outside the declared bound.
OutOfBound ==
    CASE ops.kind \in {"min", "minLength"} -> ops.value.n < ops.bound
      [] OTHER -> ops.value.n > ops.bound

BoundEnforced ==
    ops.errors = IF OutOfBound
                 THEN << ValidationError(BoundedField(ops.kind, ops.bound).name,
                                         ops.kind, ops.bound) >>
                 ELSE << >>

\* C24: validation reports a number below a declared min or above a declared
\* max, and a string shorter than a declared minLength or longer than a
\* declared maxLength, for every declared bound value, 0 included, in create
\* validation and in update validation.
C24_BoundsEnforced == ops.pc = "validated" => BoundEnforced

\* C24, where it holds: for every declared bound other than 0.
C24_NonZeroBoundsEnforced == (ops.pc = "validated" /\ ops.bound # 0) => BoundEnforced

\* C24, the failing cases reached: a negative number passes a declared
\* minimum of 0 in create validation, and a non-empty string passes a
\* declared maximum length of 0 in update validation.
C24_NegativePassesMinZero ==
    /\ ops.pc = "validated" /\ ops.path = "create"
    /\ ops.kind = "min" /\ ops.bound = 0 /\ ops.value = Num(0 - 1)
    /\ ops.errors = << >>

C24_StringPassesMaxLengthZero ==
    /\ ops.pc = "validated" /\ ops.path = "update"
    /\ ops.kind = "maxLength" /\ ops.bound = 0 /\ ops.value = Str("x", 1)
    /\ ops.errors = << >>

\* C24, an enforced bound reached: a number below a declared minimum of 1 is
\* reported by update validation.
C24_BelowMinReported ==
    /\ ops.pc = "validated" /\ ops.path = "update"
    /\ ops.kind = "min" /\ ops.bound = 1 /\ ops.value = Num(0)
    /\ ops.errors = << ValidationError("age", "min", 1) >>

(***************************************************************************)
(* Specification SpecCount: a model with or without soft deletes whose     *)
(* caller creates records, soft-deletes some, and asks count, exists and   *)
(* findAll for the same where mapping.                                     *)
(***************************************************************************)
\* CrudOperations.count(where): addWhereConditions, buildCount and
\* `results[0]?.count || 0`, the statement AggregateOperations.count sends.
CrudCount(table, where) == Count(table, where)

CountIdle(opts) ==
    [opts |-> opts, op |-> "none", where |-> EmptyRecord, count |-> 0,
     exists |-> FALSE, records |-> << >>, error |-> NotThrown]

InitCount ==
    /\ db = << >>
    /\ nextId = 1
    /\ ops \in {CountIdle(opts) : opts \in {DefaultOptions, SoftDeleteOptions}}
    /\ cr = Unused /\ up = Unused /\ lastWriter = Unused
    /\ fd = Unused /\ bk = Unused /\ pct = Unused /\ qb = Unused

notCount == <<cr, up, lastWriter, fd, bk, pct, qb>>

CountCreate ==
    /\ Len(db) < MaxRows
    /\ \E data \in FindCreateInputs :
          \E run \in {CreateRun(ops.opts, NoHooks, db, nextId, data, "none")} :
             /\ db' = run.table
             /\ nextId' = run.nextId
             /\ ops' = [CountIdle(ops.opts) EXCEPT !.op = "create", !.error = run.error]
    /\ UNCHANGED notCount

\* softDelete(where): throws on a model without soft deletes.
CountSoftDelete ==
    /\ \E where \in FindWheres :
          IF ~ops.opts.softDeletes
          THEN /\ ops' = [CountIdle(ops.opts) EXCEPT
                            !.op = "softDelete", !.where = where,
                            !.error = Thrown(Message("SoftDeletesNotEnabled", "", {}, ""))]
               /\ db' = db
          ELSE \E res \in {SoftDelete(ops.opts, db, where)} :
                  /\ db' = res.table
                  /\ ops' = [CountIdle(ops.opts) EXCEPT !.op = "softDelete",
                                                        !.where = where,
                                                        !.error = res.error]
    /\ UNCHANGED <<nextId, notCount>>

\* count(where), exists(where) and findAll({ where }) on the same table.
CountCall ==
    /\ \E where \in FindWheres :
          \E n \in {CrudCount(db, where)} :
          \E q \in {RunQuery(db, FindAllQuery(ops.opts, where))} :
             ops' = [CountIdle(ops.opts) EXCEPT !.op = "count", !.where = where,
                                                !.count = n, !.exists = n > 0,
                                                !.records = q.records]
    /\ UNCHANGED <<db, nextId, notCount>>

NextCount ==
    \/ CountCreate
    \/ CountSoftDelete
    \/ CountCall

SpecCount == InitCount /\ [][NextCount]_vars

(***************************************************************************)
(* Claims about count and exists (SpecCount)                               *)
(***************************************************************************)
CountAgrees ==
    /\ ops.count = Len(ops.records)
    /\ ops.exists <=> Len(ops.records) > 0

\* C25: in any database state count(where) is the number of records
\* findAll({where}) returns and exists(where) is true exactly when that
\* number is above zero, on every schema, soft-delete-enabled ones included.
C25_CountMatchesFindAll == ops.op = "count" => CountAgrees

\* C25, where it holds: on a schema without soft deletes, and in any case
\* exists is count > 0.
C25_CountMatchesWithoutSoftDeletes ==
    ops.op = "count" =>
        /\ ops.exists <=> ops.count > 0
        /\ ~ops.opts.softDeletes => CountAgrees

\* C25, the failing case reached: one record, soft-deleted; findAll returns
\* nothing, count is 1 and exists is true.
C25_CountsSoftDeleted ==
    /\ ops.op = "count" /\ ops.opts.softDeletes
    /\ ops.where = EmptyRecord
    /\ Len(db) = 1 /\ db[1].deleted_at # Null
    /\ ops.records = << >> /\ ops.count = 1 /\ ops.exists

\* C25, the agreeing case reached: two records without soft deletes, both
\* counted and both returned.
C25_CountsStored ==
    /\ ops.op = "count" /\ ~ops.opts.softDeletes
    /\ ops.where = EmptyRecord
    /\ Len(ops.records) = 2 /\ ops.count = 2 /\ ops.exists

(***************************************************************************)
(* Where entries of the form {operator, value} (SpecEntry)                 *)
(***************************************************************************)
EntryAges == {Num(MinAge), Num(MinAge + 1), Num(MinAge + 2)}

ScalarOperators == {"=", "!=", ">", "<", ">=", "<="}
ListOperators == {"IN", "NOT IN"}

EntryLists ==
    {<< a >> : a \in EntryAges} \cup {<< Num(MinAge), Num(MinAge + 2) >>}
EntryRanges ==
    {<< Num(MinAge), Num(MinAge + 1) >>, << Num(MinAge + 1), Num(MinAge + 2) >>,
     << Num(MinAge), Num(MinAge + 2) >>}

\* The values a caller puts under `age` in a where map.
WhereEntries ==
    {OperatorEntry(o, a) : o \in ScalarOperators, a \in EntryAges}
        \cup {OperatorEntry(o, l) : o \in ListOperators, l \in EntryLists}
        \cup {OperatorEntry("BETWEEN", r) : r \in EntryRanges}
        \cup {ArrayEntry(l) : l \in EntryLists}

EntryIdle == [op |-> "none", entry |-> Undef,
              sql |-> Build(NewQueryBuilder(TableName)).sql, records |-> << >>]

InitEntry ==
    /\ db = << >>
    /\ nextId = 1
    /\ ops = EntryIdle
    /\ cr = Unused /\ up = Unused /\ lastWriter = Unused
    /\ fd = Unused /\ bk = Unused /\ pct = Unused /\ qb = Unused

notEntry == <<cr, up, lastWriter, fd, bk, pct, qb>>

EntryCreate ==
    /\ Len(db) < MaxRows
    /\ \E e \in {Key, OtherKey}, a \in EntryAges :
          \E run \in {CreateRun(DefaultOptions, NoHooks, db, nextId,
                                [EmptyRecord EXCEPT !.email = e, !.age = a], "none")} :
             /\ db' = run.table
             /\ nextId' = run.nextId
             /\ ops' = [EntryIdle EXCEPT !.op = "create"]
    /\ UNCHANGED notEntry

\* findAll({ where: { age: entry } }).
EntryFindAll ==
    /\ \E entry \in WhereEntries :
          \E q \in {RunQuery(db, FindAllQuery(DefaultOptions,
                                              [EmptyRecord EXCEPT !.age = entry]))} :
             ops' = [EntryIdle EXCEPT !.op = "findAll", !.entry = entry,
                                      !.sql = q.sql, !.records = q.records]
    /\ UNCHANGED <<db, nextId, notEntry>>

NextEntry ==
    \/ EntryCreate
    \/ EntryFindAll

SpecEntry == InitEntry /\ [][NextEntry]_vars

(***************************************************************************)
(* Claims about {operator, value} entries (SpecEntry)                      *)
(***************************************************************************)
\* The comparison an entry asks for, on a stored numeric value.
InList(v, list) == \E k \in 1..Len(list) : list[k] = v

EntrySatisfies(v, entry) ==
    CASE entry.t = "array" -> InList(v, entry.values)
      [] entry.operator = "=" -> v = entry.value
      [] entry.operator = "!=" -> v # entry.value
      [] entry.operator = ">" -> v.n > entry.value.n
      [] entry.operator = "<" -> v.n < entry.value.n
      [] entry.operator = ">=" -> v.n >= entry.value.n
      [] entry.operator = "<=" -> v.n <= entry.value.n
      [] entry.operator = "IN" -> InList(v, entry.value)
      [] entry.operator = "NOT IN" -> ~InList(v, entry.value)
      [] entry.operator = "BETWEEN" ->
            entry.value[1].n <= v.n /\ v.n <= entry.value[2].n

RECURSIVE Satisfying(_, _)
Satisfying(rows, entry) ==
    IF Len(rows) = 0 THEN << >>
    ELSE (IF EntrySatisfies(Head(rows).age, entry) THEN << Head(rows) >> ELSE << >>)
            \o Satisfying(Tail(rows), entry)

IsOperatorEntry == ops.op = "findAll" /\ ops.entry.t = "object"

\* C26: a where entry {operator, value} filters by exactly that comparison
\* for every supported operator: IN with a non-empty list matches the
\* records whose field equals a listed value, BETWEEN [lo, hi] those whose
\* field lies between lo and hi.
C26_OperatorEntryFilters ==
    IsOperatorEntry => ops.records = Satisfying(db, ops.entry)

\* C26, where it holds: the single-value comparison operators and a bare
\* array filter exactly; an IN, NOT IN or BETWEEN entry returns no record.
C26_ScalarOperatorsFilter ==
    ops.op = "findAll" =>
        IF ops.entry.t = "object" /\ ops.entry.operator \in ListOperators \cup {"BETWEEN"}
        THEN ops.records = << >>
        ELSE ops.records = Satisfying(db, ops.entry)

\* C26, the failing case reached: an IN entry listing the age of a stored
\* record returns nothing.
C26_InEntryMatchesNothing ==
    /\ IsOperatorEntry
    /\ ops.entry.operator = "IN"
    /\ Len(Satisfying(db, ops.entry)) > 0
    /\ ops.records = << >>

\* C26, the failing case reached for BETWEEN.
C26_BetweenEntryMatchesNothing ==
    /\ IsOperatorEntry
    /\ ops.entry.operator = "BETWEEN"
    /\ Len(Satisfying(db, ops.entry)) > 0
    /\ ops.records = << >>

\* C26, the holding case reached: a `>` entry keeps one of two records.
C26_GreaterThanKeepsOne ==
    /\ IsOperatorEntry
    /\ ops.entry.operator = ">"
    /\ Len(db) = 2
    /\ Len(ops.records) = 1
    /\ ops.records = Satisfying(db, ops.entry)

(***************************************************************************)
(* Schema.validate on arbitrary records (SpecValidate)                     *)
(***************************************************************************)
MinNameLength == 3
MaxNameLength == 5

\* A schema using every kind of constraint validate knows.
ValidatedFields ==
    << FieldDef("id", "number", TRUE, TRUE, FALSE, FALSE, Undef),
       [FieldDef("email", "string", TRUE, FALSE, TRUE, FALSE, Undef)
            EXCEPT !.validate = "email", !.minLength = MinNameLength,
                   !.maxLength = MaxNameLength],
       [FieldDef("age", "number", FALSE, FALSE, FALSE, FALSE, Undef)
            EXCEPT !.min = MinAge, !.max = MaxAge],
       [FieldDef("role", "string", TRUE, FALSE, FALSE, FALSE, Undef)
            EXCEPT !.enum = << Str("user", 4), Str("admin", 5) >>] >>

ValidatedRecords ==
    {[EmptyRecord EXCEPT !.email = e, !.age = a, !.role = r] :
        e \in {Undef, Null, Str("ab", 2), Str("a@b", 3), Str("a@b.com", 7), Num(1)},
        a \in {Undef, Num(MinAge - 1), Num(MinAge), Num(MaxAge + 1), Str("x", 1)},
        r \in {Undef, Str("user", 4), Str("admin", 5), Str("root", 4), Bool(TRUE)}}

SchemaValidate(fields, data) ==
    \* const errors = []; for (...) {...}; return { isValid, errors }
    CHOOSE r \in {[isValid |-> Len(errors) = 0, errors |-> errors] :
                     errors \in {ValidateFrom(fields, 1, data)}} : TRUE

ValidateIdle == [op |-> "none", data |-> EmptyRecord, isValid |-> FALSE, errors |-> << >>]

InitValidate ==
    /\ db = << >>
    /\ nextId = 1
    /\ ops = ValidateIdle
    /\ cr = Unused /\ up = Unused /\ lastWriter = Unused
    /\ fd = Unused /\ bk = Unused /\ pct = Unused /\ qb = Unused

ValidateCall ==
    /\ \E data \in ValidatedRecords :
          \E res \in {SchemaValidate(ValidatedFields, data)} :
             ops' = [op |-> "validate", data |-> data,
                     isValid |-> res.isValid, errors |-> res.errors]
    /\ UNCHANGED <<db, nextId, cr, up, lastWriter, fd, bk, pct, qb>>

NextValidate == ValidateCall

SpecValidate == InitValidate /\ [][NextValidate]_vars

(***************************************************************************)
(* Claims about Schema.validate (SpecValidate)                             *)
(***************************************************************************)
Missing(v) == v = Undef \/ v = Null

\* The constraints of a field a value breaks.  A missing value can only
\* break `required`, a value of the wrong type only the type.
Violations(fd0, v) ==
    IF Missing(v)
    THEN (IF fd0.required /\ ~fd0.autoIncrement THEN {"required"} ELSE {})
    ELSE IF ~ValidateType(v, fd0.type) THEN {"type"}
    ELSE {k \in {"minLength", "maxLength"} :
             /\ fd0.type = "string" /\ fd0[k] # 0
             /\ IF k = "minLength" THEN v.n < fd0[k] ELSE v.n > fd0[k]}
         \cup {k \in {"min", "max"} :
             /\ fd0.type = "number" /\ fd0[k] # 0
             /\ IF k = "min" THEN v.n < fd0[k] ELSE v.n > fd0[k]}
         \cup (IF fd0.enum # << >> /\ \A k \in 1..Len(fd0.enum) : fd0.enum[k] # v
               THEN {"enum"} ELSE {})
         \cup (IF fd0.validate = "email" /\ v.s \notin WithAtSign THEN {"custom"} ELSE {})

RecordViolations(fields, data) ==
    UNION {{<< fields[i].name, k >> : k \in Violations(fields[i], data[fields[i].name])} :
              i \in 1..Len(fields)}

ReportedViolations(errors) == {<< errors[i].field, errors[i].kind >> : i \in 1..Len(errors)}

FieldIndex(fields, name) == CHOOSE i \in 1..Len(fields) : fields[i].name = name

InDeclarationOrder(fields, errors) ==
    \A i, j \in 1..Len(errors) :
        i < j => FieldIndex(fields, errors[i].field) <= FieldIndex(fields, errors[j].field)

\* C27: validate checks every field in declaration order without stopping
\* at the first failure: the errors list holds every violation of the
\* record, and isValid is true exactly when the list is empty.
C27_ValidateCollectsAll ==
    ops.op = "validate" =>
        /\ ReportedViolations(ops.errors) = RecordViolations(ValidatedFields, ops.data)
        /\ Len(ops.errors) = Cardinality(RecordViolations(ValidatedFields, ops.data))
        /\ InDeclarationOrder(ValidatedFields, ops.errors)
        /\ ops.isValid <=> ops.errors = << >>

\* C27, its case reached: a record breaking a constraint of each of three
\* fields gets three errors, in declaration order.
C27_ThreeFieldsReported ==
    /\ ops.op = "validate"
    /\ ~ops.isValid
    /\ Len(ops.errors) >= 3
    /\ {ops.errors[i].field : i \in 1..Len(ops.errors)} = {"email", "age", "role"}
    /\ ops.errors[1].field = "email"

(***************************************************************************)
(* Specification SpecLost: create step by step while another caller may    *)
(* delete the inserted row between the INSERT and the re-fetch (the two    *)
(* statements are separate requests, outside any transaction).             *)
(***************************************************************************)
MaxLost == 1

\* Another caller's deleteById of the row just inserted.  Identifiers are
\* handed out in sequence, so nextId - 1 - Len(db) rows are gone already.
RowDeletedByOther ==
    /\ cr.pc = "refetch"
    /\ nextId - 1 - Len(db) < MaxLost
    /\ \E i \in 1..Len(db) :
          /\ db[i].id = Num(cr.lastRowId)
          /\ \E res \in {DeleteById(DefaultOptions, db, db[i].id)} : db' = res.table
    /\ UNCHANGED <<nextId, cr, notCreate>>

NextLost ==
    \/ CreateCall
    \/ BeforeCreateStep
    \/ PrepareStep
    \/ ValidateStep
    \/ InsertStep
    \/ RowDeletedByOther
    \/ RefetchStep
    \/ AfterCreateStep
    \/ CreateReturn

SpecLost == InitCreate /\ [][NextLost]_vars

(***************************************************************************)
(* Claims about a create whose record cannot be returned (SpecLost)        *)
(***************************************************************************)
InSeq(x, seq) == \E k \in 1..Len(seq) : seq[k] = x

FailedToCreateErrors ==
    {Thrown(Message("FailedToCreate", "", {}, "")),
     Thrown(Message("FailedToRetrieve", "", {}, ""))}

\* The INSERT step stored a row and the executor reported no identifier.
NoIdentifierReported == cr.pc = "insert" /\ db' # db /\ cr'.lastRowId = 0

\* The re-fetch step runs on a table without the identified row.
RefetchFindsNoRow ==
    cr.pc = "refetch" /\ \A i \in 1..Len(db) : db[i].id # Num(cr.lastRowId)

FailedCreateReturnsNothing ==
    cr.error \in FailedToCreateErrors =>
        /\ cr.pc = "failed"
        /\ cr.record = EmptyRecord
        /\ ~InSeq("afterCreate", cr.stages)

\* C28: create raises a failed-to-create error exactly when the INSERT
\* succeeded and the executor reported no generated identifier, or the
\* re-fetch by that identifier found no row; it then does not invoke
\* afterCreate and returns no record.
C28_FailedToCreateExactly ==
    /\ [][cr' # cr =>
            (cr'.error \in FailedToCreateErrors
                <=> (NoIdentifierReported \/ RefetchFindsNoRow))]_vars
    /\ []FailedCreateReturnsNothing

\* C28, its case reached: the row was inserted and then deleted by another
\* caller; create with an afterCreate hook fails without invoking it.
C28_LostRowFails ==
    /\ cr.pc = "failed"
    /\ cr.error = Thrown(Message("FailedToRetrieve", "", {}, ""))
    /\ cr.hooks.afterCreate
    /\ ~InSeq("afterCreate", cr.stages)
    /\ InSeq("INSERT", cr.stages)
    /\ cr.record = EmptyRecord

\* C28, its other case reached: the row is stored, no identifier came back.
C28_NoIdentifierFails ==
    /\ cr.pc = "failed"
    /\ cr.error = Thrown(Message("FailedToCreate", "", {}, ""))
    /\ Len(db) = Len(cr.table0) + 1
    /\ cr.hooks.afterCreate
    /\ ~InSeq("afterCreate", cr.stages)

(***************************************************************************)
(* Specification SpecHooks: create, update, delete and findById statement  *)
(* by statement on a model whose lifecycle hooks may be absent, return or  *)
(* throw.  `stages` lists, in order, the hooks invoked and the statements  *)
(* sent to the executor.                                                   *)
(***************************************************************************)
HookNames ==
    {"beforeCreate", "afterCreate", "beforeUpdate", "beforeDelete", "afterDelete",
     "beforeFind", "afterFind"}
HookModes == {"absent", "returns", "throws"}
HookedOps == {"create", "update", "delete", "findById"}

\* The hooks an operation reaches.
HooksOf(op) ==
    CASE op = "create" -> {"beforeCreate", "afterCreate", "beforeFind", "afterFind"}
      [] op = "update" -> {"beforeUpdate"}
      [] op = "delete" -> {"beforeDelete", "afterDelete"}
      [] op = "findById" -> {"beforeFind", "afterFind"}

BeforeHook(op) ==
    CASE op = "create" -> "beforeCreate"
      [] op = "update" -> "beforeUpdate"
      [] op = "delete" -> "beforeDelete"
      [] op = "findById" -> "beforeFind"

HookThrown(name) == Thrown(Message("HookError", name, {}, ""))

HookedIdle ==
    [pc |-> "idle", op |-> "none", hooks |-> [h \in HookNames |-> "absent"],
     data |-> EmptyRecord, id |-> Undef, stages |-> << >>, error |-> NotThrown,
     returned |-> FALSE, record |-> EmptyRecord]

HookedInputs ==
    {[EmptyRecord EXCEPT !.email = e, !.age = Num(MinAge)] : e \in {Key, Str("e@f.com", 7)}}

\* A hook invocation that swallows what the hook throws.
RunHookSwallowing(o, name) ==
    IF o.hooks[name] = "absent" THEN o
    ELSE [o EXCEPT !.stages = Append(@, name)]

\* if (this.hooks.h) await this.hooks.h(...): a throw leaves the method.
RunHook(o, name) ==
    IF o.hooks[name] = "absent" THEN o
    ELSE IF o.hooks[name] = "returns" THEN [o EXCEPT !.stages = Append(@, name)]
    ELSE [o EXCEPT !.stages = Append(@, name), !.error = HookThrown(name),
                   !.pc = "failed"]

\* The method goes on to its next statement unless the hook threw.
Onward(o, pc) == IF o.pc = "failed" THEN o ELSE [o EXCEPT !.pc = pc]

Failing(o, error) == [o EXCEPT !.pc = "failed", !.error = error]

InitHooks ==
    /\ db \in WriteTables
    /\ nextId = Len(db) + 1
    /\ ops = HookedIdle
    /\ cr = Unused /\ up = Unused /\ lastWriter = Unused
    /\ fd = Unused /\ bk = Unused /\ pct = Unused /\ qb = Unused

notHooks == <<cr, up, lastWriter, fd, bk, pct, qb>>

\* create(data), update(data, { id }), delete({ id }) or findById(id) is called.
HookedCall ==
    /\ ops.pc = "idle"
    /\ \E op \in HookedOps, data \in HookedInputs, id \in {Num(1), Num(2)},
          hooks \in [HookNames -> HookModes] :
          /\ \A h \in HookNames \ HooksOf(op) : hooks[h] = "absent"
          /\ op = "create" => Len(db) < MaxRows
          /\ ops' = [HookedIdle EXCEPT
                        !.pc = IF op = "findById" THEN "beforeFind" ELSE "before",
                        !.op = op, !.hooks = hooks,
                        !.data = IF op = "create" THEN data
                                 ELSE IF op = "update"
                                 THEN [EmptyRecord EXCEPT !.role = Str("admin", 5)]
                                 ELSE EmptyRecord,
                        !.id = IF op = "create" THEN Undef ELSE id]
    /\ UNCHANGED <<db, nextId, notHooks>>

\* The beforeCreate, beforeUpdate or beforeDelete hook.
HookedBefore ==
    /\ ops.pc = "before"
    /\ \E o \in {RunHook(ops, BeforeHook(ops.op))} : ops' = Onward(o, "statement")
    /\ UNCHANGED <<db, nextId, notHooks>>

\* create: prepareDataForInsert, validate, INSERT, and the last_row_id test.
HookedInsert ==
    /\ ops.pc = "statement" /\ ops.op = "create"
    /\ \E prepared \in {PrepareDataForInsert(DefaultOptions, ops.data)} :
       \E validation \in {Validate(DefaultOptions, prepared)} :
          IF ~validation.isValid
          THEN /\ ops' = Failing(ops, ValidationFailed(validation.errors))
               /\ UNCHANGED <<db, nextId>>
          ELSE \E res \in {InsertResult(DefaultOptions, db, nextId, prepared, "none")} :
                  /\ db' = res.table
                  /\ nextId' = res.nextId
                  /\ \E o \in {[ops EXCEPT !.stages = Append(@, "INSERT"),
                                           !.id = Num(res.lastRowId)]} :
                        ops' = IF ~res.success
                               THEN Failing(o, Thrown(ExecuteQueryError(
                                        DefaultOptions, res.error,
                                        InsertSql(TableName, prepared))))
                               ELSE IF res.lastRowId = 0
                               THEN Failing(o, Thrown(Message("FailedToCreate", "", {}, "")))
                               ELSE [o EXCEPT !.pc = "beforeFind"]
    /\ UNCHANGED notHooks

\* update: prepareDataForUpdate, validateUpdateData, buildUpdate, UPDATE; return.
HookedUpdate ==
    /\ ops.pc = "statement" /\ ops.op = "update"
    /\ \E res \in {Update(DefaultOptions, db, ops.data, WhereId(ops.id))} :
          /\ db' = res.table
          /\ ops' = IF res.error # NotThrown THEN Failing(ops, res.error)
                    ELSE [ops EXCEPT !.pc = "done", !.returned = TRUE,
                                     !.stages = Append(@, "UPDATE")]
    /\ UNCHANGED <<nextId, notHooks>>

\* delete: addWhereConditions, buildDelete, DELETE.
HookedDelete ==
    /\ ops.pc = "statement" /\ ops.op = "delete"
    /\ \E res \in {Delete(DefaultOptions, db, WhereId(ops.id), "none")} :
          /\ db' = res.table
          /\ ops' = IF res.error # NotThrown THEN Failing(ops, res.error)
                    ELSE [ops EXCEPT !.pc = "after", !.stages = Append(@, "DELETE")]
    /\ UNCHANGED <<nextId, notHooks>>

\* findById: the beforeFind hook.
HookedBeforeFind ==
    /\ ops.pc = "beforeFind"
    /\ \E o \in {RunHook(ops, "beforeFind")} : ops' = Onward(o, "select")
    /\ UNCHANGED <<db, nextId, notHooks>>

\* findById: query.build() and the SELECT.
HookedSelect ==
    /\ ops.pc = "select"
    /\ \E q \in {RunQuery(db, FindByIdQuery(DefaultOptions, ops.id))} :
          ops' = [ops EXCEPT !.pc = "afterFind", !.stages = Append(@, "SELECT"),
                             !.record = FirstOrNull(q.records)]
    /\ UNCHANGED <<db, nextId, notHooks>>

\* findById: the afterFind hook and `return records[0] || null`; in create,
\* the test of what findById returned.
HookedAfterFind ==
    /\ ops.pc = "afterFind"
    /\ \E o \in {RunHook(ops, "afterFind")} :
          ops' = IF o.pc = "failed" THEN [o EXCEPT !.record = EmptyRecord]
                 ELSE IF ops.op = "findById" THEN [o EXCEPT !.pc = "done", !.returned = TRUE]
                 ELSE IF o.record = EmptyRecord
                 THEN Failing(o, Thrown(Message("FailedToRetrieve", "", {}, "")))
                 ELSE [o EXCEPT !.pc = "after"]
    /\ UNCHANGED <<db, nextId, notHooks>>

\* The afterCreate or afterDelete hook, then the return.
HookedAfter ==
    /\ ops.pc = "after"
    /\ \E o \in {RunHook(ops, IF ops.op = "create" THEN "afterCreate" ELSE "afterDelete")} :
          ops' = IF o.pc = "failed" THEN [o EXCEPT !.record = EmptyRecord]
                 ELSE [o EXCEPT !.pc = "done", !.returned = TRUE]
    /\ UNCHANGED <<db, nextId, notHooks>>

\* The call has returned or thrown; the caller goes on.
HookedReturn ==
    /\ ops.pc \in {"done", "failed"}
    /\ ops' = HookedIdle
    /\ UNCHANGED <<db, nextId, notHooks>>

NextHooks ==
    \/ HookedCall
    \/ HookedBefore
    \/ HookedInsert
    \/ HookedUpdate
    \/ HookedDelete
    \/ HookedBeforeFind
    \/ HookedSelect
    \/ HookedAfterFind
    \/ HookedAfter
    \/ HookedReturn

SpecHooks == InitHooks /\ [][NextHooks]_vars

(***************************************************************************)
(* Claims about throwing hooks (SpecHooks)                                 *)
(***************************************************************************)
Statements == {"INSERT", "SELECT", "UPDATE", "DELETE"}

\* The throwing hooks among the stages performed.
ThrowingStages ==
    {k \in 1..Len(ops.stages) :
        ops.stages[k] \in HookNames /\ ops.hooks[ops.stages[k]] = "throws"}

\* A hook that threw is the last stage performed, the call has failed with
\* the hook's error and returned nothing.
ThrowEndsPipeline ==
    \A k \in ThrowingStages :
        /\ k = Len(ops.stages)
        /\ ops.pc = "failed"
        /\ ops.error = HookThrown(ops.stages[k])
        /\ ~ops.returned
        /\ ops.record = EmptyRecord

\* After a throwing before-hook of the operation no statement was sent.
BeforeThrowIssuesNothing ==
    ops.error = HookThrown(BeforeHook(ops.op)) =>
        \A k \in 1..Len(ops.stages) : ops.stages[k] \notin Statements

\* C29: a throwing lifecycle hook rejects the operation with its error at
\* once; no later stage runs: no SQL after a throwing beforeCreate,
\* beforeUpdate, beforeDelete or beforeFind, no further hook and no result
\* after a throwing after-hook.
C29_ThrowingHookAborts ==
    ops.op \in HookedOps => ThrowEndsPipeline /\ BeforeThrowIssuesNothing

\* C29, its case reached: afterCreate threw after the INSERT and the
\* re-fetch; the create is rejected with the hook's error, without a record.
C29_AfterCreateThrew ==
    /\ ops.op = "create"
    /\ ops.error = HookThrown("afterCreate")
    /\ InSeq("INSERT", ops.stages)
    /\ ops.pc = "failed" /\ ~ops.returned

\* C29, its case reached: beforeDelete threw and the table is untouched.
C29_BeforeDeleteThrew ==
    /\ ops.op = "delete"
    /\ ops.error = HookThrown("beforeDelete")
    /\ ops.stages = << "beforeDelete" >>
    /\ \E i \in 1..Len(db) : db[i].id = ops.id

(***************************************************************************)
(* Specification SpecNoFields: buildUpdate on a set-map, and update on     *)
(* models with and without timestamps.                                     *)
(***************************************************************************)
NoTimestampOptions == [timestamps |-> FALSE, softDeletes |-> FALSE, paranoid |-> FALSE]

\* Set-maps and update payloads: empty, only keys update removes, a null,
\* a value, an out-of-range value.
SetMaps ==
    {EmptyRecord,
     [EmptyRecord EXCEPT !.id = Num(1)],
     [EmptyRecord EXCEPT !.id = Num(1), !.created_at = Stale],
     [EmptyRecord EXCEPT !.role = Null],
     [EmptyRecord EXCEPT !.role = Str("admin", 5)],
     [EmptyRecord EXCEPT !.age = Num(MaxAge + 1)],
     [EmptyRecord EXCEPT !.id = Num(1), !.age = Num(MaxAge)]}

NoFieldsIdle ==
    [op |-> "none", opts |-> DefaultOptions, data |-> EmptyRecord, before |-> << >>,
     ok |-> TRUE, error |-> NotThrown, issued |-> << >>, changes |-> 0]

InitNoFields ==
    /\ db \in WriteTables
    /\ nextId = Len(db) + 1
    /\ ops = NoFieldsIdle
    /\ cr = Unused /\ up = Unused /\ lastWriter = Unused
    /\ fd = Unused /\ bk = Unused /\ pct = Unused /\ qb = Unused

notNoFields == <<cr, up, lastWriter, fd, bk, pct, qb>>

\* query.where(...).buildUpdate(data)
NoFieldsBuildUpdate ==
    /\ \E data \in SetMaps, where \in {EmptyRecord, WhereId(Num(1))} :
          \E b \in {BuildUpdate(AddWhereConditions(NewQueryBuilder(TableName), 1, where),
                                UpdateKeyOrder, data)} :
             ops' = [NoFieldsIdle EXCEPT !.op = "buildUpdate", !.data = data,
                                         !.before = db, !.ok = b.ok,
                                         !.issued = IF b.ok THEN << b.sql >> ELSE << >>]
    /\ UNCHANGED <<db, nextId, notNoFields>>

\* update(data, where)
NoFieldsUpdate ==
    /\ \E data \in SetMaps, where \in {EmptyRecord, WhereId(Num(1))},
          opts \in {DefaultOptions, NoTimestampOptions} :
          \E res \in {Update(opts, db, data, where)} :
             /\ db' = res.table
             /\ ops' = [NoFieldsIdle EXCEPT !.op = "update", !.opts = opts, !.data = data,
                                            !.before = db, !.error = res.error,
                                            !.issued = res.issued,
                                            !.changes = res.changes]
    /\ UNCHANGED <<nextId, notNoFields>>

NextNoFields ==
    \/ NoFieldsBuildUpdate
    \/ NoFieldsUpdate

SpecNoFields == InitNoFields /\ [][NextNoFields]_vars

(***************************************************************************)
(* Claims about an update without fields (SpecNoFields)                    *)
(***************************************************************************)
NoFieldsToUpdate == Thrown(Message("NoFieldsToUpdate", "", {}, ""))

NoDefinedValue(data) == \A f \in FieldNames : data[f] = Undef

\* What update hands to buildUpdate: the payload without id and created_at,
\* with the updated_at stamp on a model with timestamps.
HandedToBuildUpdate ==
    [f \in FieldNames |->
        IF f \in {"id", "created_at"} THEN Undef
        ELSE IF f = "updated_at" /\ ops.opts.timestamps THEN Stale
        ELSE ops.data[f]]

\* C30: buildUpdate raises the no-fields-to-update error exactly when the
\* set-map holds no field with a defined value; update then issues no SQL,
\* changes nothing and throws that error to its caller.
C30_NoFieldsExactly ==
    /\ ops.op = "buildUpdate" => (~ops.ok <=> NoDefinedValue(ops.data))
    /\ ops.op = "update" =>
          /\ NoDefinedValue(HandedToBuildUpdate) => ops.error = NoFieldsToUpdate
          /\ ops.error = NoFieldsToUpdate =>
                /\ NoDefinedValue(HandedToBuildUpdate)
                /\ ops.issued = << >>
                /\ db = ops.before
                /\ ops.changes = 0

\* C30, its case reached: update({ id: 1 }, {}) on a model without
\* timestamps, on a table holding records.
C30_OnlyIdThrows ==
    /\ ops.op = "update"
    /\ ~ops.opts.timestamps
    /\ ops.data.id = Num(1)
    /\ ops.error = NoFieldsToUpdate
    /\ ops.issued = << >>
    /\ Len(db) > 0

\* C30, the other side reached: a set-map holding only a null compiles.
C30_NullIsAField ==
    /\ ops.op = "buildUpdate"
    /\ ops.data.role = Null
    /\ ops.ok

=============================================================================
